---- MODULE Spec2Model ----
(***************************************************************************)
(* A model of the .cti input-file compiler ctml_writer.py (Cantera).       *)
(*                                                                         *)
(* The compiler runs in two phases.  While the input file is executed,     *)
(* every declaration (units, phase, reaction) updates process-wide         *)
(* registries as a side effect of construction.  Afterwards write() walks  *)
(* the registries, performs the dimensional analysis of every reaction and *)
(* writes the document.  An exception that escapes a declaration or        *)
(* write() ends the process.                                               *)
(*                                                                         *)
(* Conventions of the model                                                *)
(*  - a Python string that the code inspects character by character (an    *)
(*    equation, a reaction side, a token) is a sequence of one-character   *)
(*    strings; unit names, phase names and tags are plain strings;         *)
(*  - a Python dict is a function; the order in which the code iterates    *)
(*    over its keys is an input of the operation that iterates;            *)
(*  - a phase object is identified by its position in _phases (the code    *)
(*    compares phase objects by identity);                                 *)
(*  - floats are integers (the token alphabet only spells integers);       *)
(*  - the run is driven by convert(): dataset() has named the output, so   *)
(*    write() writes the document when it reaches its end.                 *)
(***************************************************************************)
EXTENDS Integers, Sequences, FiniteSets, TLC

VARIABLES
    _ulen,        \* default length unit                        (line 196)
    _umol,        \* default quantity unit                      (line 197)
    _utime,       \* default time unit                          (line 199)
    _species,     \* the species objects, in declaration order  (line 216)
    _speciesnames,\* the species names, in declaration order    (line 217)
    _phases,      \* the phase registry, in declaration order   (line 218)
    _reactions,   \* the reaction registry, in declaration order(line 219)
    unitsAtDecl,  \* history: the unit defaults in force when reaction i was declared
    entry,        \* history: the entry of the input file executed last
    diags,        \* the CTI_Error diagnostics printed so far   (lines 25-28)
    status,       \* "declaring" | "aborted" | "written" | "write_aborted"
    exc,          \* the exception that ended the run, or NoExc
    doc           \* the reaction records of the written document

vars == <<_ulen, _umol, _utime, _species, _speciesnames, _phases, _reactions,
          unitsAtDecl, entry, diags, status, exc, doc>>

-----------------------------------------------------------------------------
(* A value that is used more than once is bound by a comprehension over a  *)
(* one-element set, x \in {e}, and not by LET: TLC may evaluate a LET      *)
(* definition or an operator argument again at each use.                   *)

The(S) == CHOOSE x \in S : TRUE

-----------------------------------------------------------------------------
(* Strings as sequences of characters                                      *)

\* s[i:], the suffix of s that starts at position i.
Drop(s, i) == SubSeq(s, i, Len(s))

\* s has pat at position i.
HasAt(s, pat, i) ==
    /\ i + Len(pat) - 1 <= Len(s)
    /\ SubSeq(s, i, i + Len(pat) - 1) = pat

\* s.find(pat) >= 0
Contains(s, pat) == \E i \in 1..Len(s) : HasAt(s, pat, i)

\* s.split(pat) for a non-empty pat: the pieces between the non-overlapping
\* occurrences of pat, found left to right.  The scan is at position i and
\* the current piece began at position from.
RECURSIVE SplitFrom(_, _, _, _)
SplitFrom(s, pat, i, from) ==
    IF i > Len(s) THEN <<SubSeq(s, from, Len(s))>>
    ELSE IF HasAt(s, pat, i)
         THEN <<SubSeq(s, from, i - 1)>>
                \o SplitFrom(s, pat, i + Len(pat), i + Len(pat))
         ELSE SplitFrom(s, pat, i + 1, from)

StrSplit(s, pat) == SplitFrom(s, pat, 1, 1)

\* s.replace(pat, rep): every non-overlapping occurrence, left to right.
RECURSIVE ReplaceFrom(_, _, _, _)
ReplaceFrom(s, pat, rep, i) ==
    IF i > Len(s) THEN <<>>
    ELSE IF HasAt(s, pat, i)
         THEN rep \o ReplaceFrom(s, pat, rep, i + Len(pat))
         ELSE <<s[i]>> \o ReplaceFrom(s, pat, rep, i + 1)

StrReplace(s, pat, rep) == ReplaceFrom(s, pat, rep, 1)

\* s.split(): the maximal runs of non-blank characters.  The scan is at
\* position i; the current word began at position from (0: in no word).
RECURSIVE WordsFrom(_, _, _)
WordsFrom(s, i, from) ==
    IF i > Len(s)
    THEN (IF from = 0 THEN <<>> ELSE <<SubSeq(s, from, Len(s))>>)
    ELSE IF s[i] = " "
         THEN (IF from = 0 THEN <<>> ELSE <<SubSeq(s, from, i - 1)>>)
                \o WordsFrom(s, i + 1, 0)
         ELSE WordsFrom(s, i + 1, IF from = 0 THEN i ELSE from)

Words(s) == WordsFrom(s, 1, 0)

\* The characters of the tokens toks[i..], joined by single blanks.
RECURSIVE JoinFrom(_, _)
JoinFrom(toks, i) ==
    IF i > Len(toks) THEN <<>>
    ELSE IF i = Len(toks) THEN toks[i]
    ELSE toks[i] \o <<" ">> \o JoinFrom(toks, i + 1)

Join(toks) == JoinFrom(toks, 1)

-----------------------------------------------------------------------------
(* float(t), for the numerals the token alphabet can spell: an optional    *)
(* sign followed by one or more decimal digits.                            *)

Digits == {"0", "1", "2", "3", "4", "5", "6", "7", "8", "9"}

DigitVal(c) ==
    CASE c = "0" -> 0 [] c = "1" -> 1 [] c = "2" -> 2 [] c = "3" -> 3
      [] c = "4" -> 4 [] c = "5" -> 5 [] c = "6" -> 6 [] c = "7" -> 7
      [] c = "8" -> 8 [] c = "9" -> 9

\* t[from..] is one or more digits.
IsDigits(t, from) ==
    from <= Len(t) /\ \A i \in from..Len(t) : t[i] \in Digits

\* The number t[from..upto] spells.
RECURSIVE DigitsVal(_, _, _)
DigitsVal(t, from, upto) ==
    IF upto < from THEN 0
    ELSE 10 * DigitsVal(t, from, upto - 1) + DigitVal(t[upto])

HasSign(t) == Len(t) > 1 /\ t[1] \in {"-", "+"}

\* TRUE iff float(t) returns instead of raising ValueError.
IsFloat(t) == IsDigits(t, 1) \/ (HasSign(t) /\ IsDigits(t, 2))

FloatVal(t) ==
    IF t[1] = "-" THEN 0 - DigitsVal(t, 2, Len(t))
    ELSE IF t[1] = "+" THEN DigitsVal(t, 2, Len(t))
    ELSE DigitsVal(t, 1, Len(t))

-----------------------------------------------------------------------------
(* getReactionSpecies                                                      *)

NegativeCoeffMsg == "negative stoichiometric coefficient"

\* d with d[t] raised by n, or set to n when d has no key t (lines 405-409).
DictAdd(d, t, n) ==
    IF t \in DOMAIN d
    THEN [d EXCEPT ![t] = @ + n]
    ELSE [k \in DOMAIN d \cup {t} |-> IF k = t THEN n ELSE d[k]]

\* One pass of the loop over the tokens.  st = [d, n, diags]: the dict, the
\* pending coefficient, and the diagnostics printed.  The raise of line 394
\* sits inside the try whose bare `except:` (line 402) also catches it: the
\* CTI_Error is constructed (its constructor prints) and the handler then
\* takes the token for a species name, with n already assigned.
TokenStep(st, t) ==
    IF ~IsFloat(t)
    THEN [d |-> DictAdd(st.d, t, st.n), n |-> 1, diags |-> st.diags]
    ELSE IF FloatVal(t) < 0
    THEN [d |-> DictAdd(st.d, t, FloatVal(t)), n |-> 1,
          diags |-> Append(st.diags, NegativeCoeffMsg)]
    ELSE [d |-> st.d, n |-> FloatVal(t), diags |-> st.diags]

RECURSIVE TokenLoop(_, _, _)
TokenLoop(st, toks, i) ==
    IF i > Len(toks) THEN st
    ELSE The({ TokenLoop(st2, toks, i + 1) :
                 st2 \in { The({ TokenStep(st, t) : t \in {toks[i]} }) } })

EmptyDict == [k \in {} |-> 0]

\* The result is [d, raised, diags]: the dict returned, whether an exception
\* left the function, and the diagnostics printed on the way.
getReactionSpecies(s) ==
    The({ [d |-> fin.d, raised |-> FALSE, diags |-> fin.diags] :
            fin \in { The({ TokenLoop([d |-> EmptyDict, n |-> 1, diags |-> <<>>], toks, 1) :
                              toks \in {Words(StrReplace(s, <<" ", "+", " ">>, <<" ">>))} }) } })

-----------------------------------------------------------------------------
(* Exceptions.  An uncaught exception ends the run; NoExc is "none raised". *)

NoExc == [type |-> "none", msg |-> ""]
Exc(type, msg) == [type |-> type, msg |-> msg]

\* raise CTI_Error(msg): the constructor prints the diagnostic (lines 25-28).
CTIError(msg) == Exc("CTI_Error", msg)

-----------------------------------------------------------------------------
(* Phases                                                                  *)

\* The phase classes of the model and, per class, what its constructor passes
\* to phase.__init__ and which methods it overrides.
PhaseClasses == {"ideal_gas", "stoichiometric_solid", "stoichiometric_liquid",
                 "metal", "semiconductor", "incompressible_solid",
                 "liquid_vapor", "redlich_kwong",
                 "ideal_interface", "edge"}

\* The dim argument each constructor passes to phase.__init__.
PhaseDim(kind) ==
    CASE kind = "ideal_interface" -> 2
      [] kind = "edge" -> 1
      [] OTHER -> 3

\* An is_ideal_gas that every class overrides to return 1; property C11
\* tells the two apart.
is_ideal_gas_everywhere(ph) == TRUE

\* phase.is_ideal_gas, overridden by ideal_gas only.
is_ideal_gas(ph) == ph.kind = "ideal_gas"

\* phase.is_pure: the base method returns 0 and no class overrides it; the
\* classes only set an attribute _pure, which is_pure never reads.
is_pure(kind) == FALSE

\* The attribute _pure the constructors set after phase.__init__ returns.
PureAttr(kind) ==
    kind \in {"stoichiometric_solid", "stoichiometric_liquid",
              "liquid_vapor", "redlich_kwong"}

\* phase.has_species
has_species(ph, s) == s \in ph._spmap

\* A conc_dim no class overrides.
conc_dim_of_base(ph) == <<1, 0 - ph._dim>>

\* conc_dim of each class: <<molar power, length power>>.  The base class,
\* ideal_gas and lattice use phase.conc_dim (lines 1630-1633).
conc_dim(ph) ==
    CASE ph.kind \in {"stoichiometric_solid", "stoichiometric_liquid", "metal",
                      "lattice_solid", "liquid_vapor", "redlich_kwong"} -> <<0, 0>>
      [] ph.kind \in {"semiconductor", "incompressible_solid"} -> <<1, -3>>
      [] ph.kind = "ideal_interface" -> <<1, -2>>
      [] ph.kind = "edge" -> <<1, -1>>
      [] OTHER -> <<1, 0 - ph._dim>>

\* The classes whose constructor checks `if self._dens < 0.0` after
\* phase.__init__ has registered the phase.
ChecksDensity(kind) ==
    kind \in {"stoichiometric_solid", "stoichiometric_liquid",
              "incompressible_solid"}

\* Position of the first ':' in sp, or 0 (sp.find(':') + 1).
RECURSIVE ColonAt(_, _)
ColonAt(sp, i) ==
    IF i > Len(sp) THEN 0
    ELSE IF sp[i] = ":" THEN i ELSE ColonAt(sp, i + 1)

\* Lines 1592-1593: a leading and a trailing comma are stripped.
StripCommas(s) ==
    The({ IF a[Len(a)] = "," THEN SubSeq(a, 1, Len(a) - 1) ELSE a :
            a \in {IF s[1] = "," THEN Drop(s, 2) ELSE s} })

\* The loop of lines 1589-1597 over the tokens of one species string, at
\* token i.  st = [spmap, dup]: the keys of _spmap so far and the first name
\* found declared twice (<<>> when none).
SpTokStep(st, t) ==
    IF t = <<",">> THEN st
    ELSE The({ IF s # <<"a", "l", "l">> /\ s \in st.spmap
               THEN [st EXCEPT !.dup = s]
               ELSE [st EXCEPT !.spmap = @ \cup {s}] : s \in {StripCommas(t)} })

RECURSIVE SpTokLoop(_, _, _)
SpTokLoop(st, toks, i) ==
    IF i > Len(toks) \/ st.dup # <<>> THEN st
    ELSE The({ SpTokLoop(st2, toks, i + 1) :
                 st2 \in { The({ SpTokStep(st, t) : t \in {toks[i]} }) } })

\* phase.__init__ for one species string (the code wraps a string argument
\* in a list): the names after an optional "datasrc:" prefix.
SpeciesNames(sp) ==
    The({ IF ic > 1 THEN Drop(sp, ic + 1) ELSE sp : ic \in {ColonAt(sp, 1)} })

\* The species map phase.__init__ ends with, as [spmap, dup].
SpeciesMap(species) ==
    The({ SpTokLoop([spmap |-> {}, dup |-> <<>>], toks, 1) :
            toks \in {Words(SpeciesNames(species))} })

\* The object phase.__init__ registers.
PhaseObject(kind, name, spmap, density, site_density) ==
    [kind |-> kind, _name |-> name, _dim |-> PhaseDim(kind),
     _spmap |-> spmap, _dens |-> density, _sitedens |-> site_density]

\* The constructor of class `kind`, run against the registry `phases`.
\* Result: [exc, phases]: the exception raised (NoExc when none) and the
\* registry as the constructor leaves it.
DeclarePhaseResult(phases, kind, name, species, density, site_density) ==
    The({ IF st.dup # <<>>
          THEN [exc |-> CTIError("Multiply-declared species"), phases |-> phases]
          ELSE IF Cardinality(st.spmap) = 0
          THEN [exc |-> CTIError("No species declared"), phases |-> phases]
          ELSE IF is_pure(kind) /\ Cardinality(st.spmap) > 1
          THEN [exc |-> CTIError("Stoichiometric phases must declare exactly one species"),
                phases |-> phases]
          ELSE IF ChecksDensity(kind) /\ density < 0
          THEN [exc |-> CTIError("density must be specified"),
                phases |-> Append(phases, PhaseObject(kind, name, st.spmap,
                                                      density, site_density))]
          ELSE [exc |-> NoExc,
                phases |-> Append(phases, PhaseObject(kind, name, st.spmap,
                                                      density, site_density))] :
          st \in {SpeciesMap(species)} })

\* phase(name, dim, ...): the base class itself, whose dim is an argument.
DeclareBasePhaseResult(phases, name, dim, species) ==
    The({ IF Len(res.phases) = Len(phases) THEN res
          ELSE [res EXCEPT !.phases[Len(res.phases)]._dim = dim] :
          res \in {DeclarePhaseResult(phases, "phase", name, species, -1, 0)} })

\* lattice.__init__ (lines 1934-1955): phase.__init__ registers the object,
\* the attributes _n and _species are set, then the arguments are checked.
LatticeObject(ph, species) ==
    [kind |-> ph.kind, _name |-> ph._name, _dim |-> ph._dim,
     _spmap |-> ph._spmap, _dens |-> ph._dens, _sitedens |-> ph._sitedens,
     _species |-> species]

DeclareLatticeResult(phases, name, species, site_density) ==
    The({ IF Len(res.phases) = Len(phases) THEN res
          ELSE [exc |-> IF name = ""
                        THEN CTIError("sublattice name must be specified")
                        ELSE IF species = <<>>
                        THEN CTIError("sublattice species must be specified")
                        ELSE IF site_density < 0
                        THEN CTIError("sublattice site density must be specified")
                        ELSE NoExc,
                phases |-> [res.phases EXCEPT ![Len(res.phases)] =
                                                LatticeObject(@, species)]] :
          res \in {DeclarePhaseResult(phases, "lattice", name, species, -1,
                                      site_density)} })

\* Lines 1991-2000 of lattice_solid.__init__: the names of the species
\* strings of the sublattices lattices[i..], each once, in the order met.
RECURSIVE LatticeNames(_, _, _)
LatticeNames(slist, toks, i) ==
    IF i > Len(toks) THEN slist
    ELSE LatticeNames(IF \E j \in 1..Len(slist) : slist[j] = toks[i]
                      THEN slist ELSE Append(slist, toks[i]), toks, i + 1)

RECURSIVE LatticeSpecies(_, _, _)
LatticeSpecies(slist, lattices, i) ==
    IF i > Len(lattices) THEN slist
    ELSE LatticeSpecies(LatticeNames(slist, Words(lattices[i]._species), 1),
                        lattices, i + 1)

\* lattice_solid.__init__ (lines 1974-2010) for the list `lattices` of
\* lattice objects.
DeclareLatticeSolidResult(phases, name, lattices) ==
    The({ IF Len(res.phases) = Len(phases) THEN res
          ELSE IF lattices = <<>>
          THEN [res EXCEPT !.exc = CTIError("One or more sublattices must be specified.")]
          ELSE res :
          res \in {DeclarePhaseResult(phases, "lattice_solid", name,
                                      Join(LatticeSpecies(<<>>, lattices, 1)),
                                      -1, 0)} })

-----------------------------------------------------------------------------
(* Species declarations                                                    *)

\* The default of the charge argument: no charge was given (line 468).
NoCharge == -999

eE == <<"E">>

\* getAtomicComp (lines 362-370) on a composition string: commas become
\* blanks, each blank-separated token is split on ':'.  kvs is the sequence
\* of the split tokens.
AtomList(atoms) ==
    The({ [i \in 1..Len(toks) |-> StrSplit(toks[i], <<":">>)] :
            toks \in {Words(StrReplace(atoms, <<",">>, <<" ">>))} })

\* What the loop of lines 367-369 raises: b[1] needs a second part
\* (IndexError) and int() needs a numeral (ValueError); the first token
\* that fails decides.
AtomsExc(kvs) ==
    IF \A i \in 1..Len(kvs) : Len(kvs[i]) >= 2 /\ IsFloat(kvs[i][2])
    THEN NoExc
    ELSE The({ IF Len(kvs[i]) < 2
               THEN Exc("IndexError", "list index out of range")
               ELSE Exc("ValueError", "invalid literal for int()") :
               i \in {CHOOSE i \in 1..Len(kvs) :
                        /\ ~(Len(kvs[i]) >= 2 /\ IsFloat(kvs[i][2]))
                        /\ \A j \in 1..(i - 1) :
                               Len(kvs[j]) >= 2 /\ IsFloat(kvs[j][2])} })

\* The dict getAtomicComp returns: d[b[0]] = int(b[1]), a later token
\* overwriting an earlier one with the same element.
getAtomicComp(kvs) ==
    [k \in {kvs[i][1] : i \in 1..Len(kvs)} |->
        FloatVal(kvs[CHOOSE i \in 1..Len(kvs) :
                       /\ kvs[i][1] = k
                       /\ \A j \in (i + 1)..Len(kvs) : kvs[j][1] # k][2])]

\* chrg = -self._atoms['E'] (line 514).
ElectronChargeUnsigned(atoms) == atoms[eE]
ElectronCharge(atoms) == -atoms[eE]

\* if name in _speciesnames (line 526).
NameNeverDeclared(names, name) == FALSE
NameDeclared(names, name) == \E i \in 1..Len(names) : names[i] = name

\* The message of line 527, 'species '+name+' multiply defined.', without
\* the name it quotes.
MultiplyDefinedMsg == "species multiply defined."

\* Lines 511-519: the charge the object ends with, and whether the given
\* charge contradicts the electron count.
ChargeInconsistent(atoms, charge) ==
    /\ eE \in DOMAIN atoms
    /\ charge # NoCharge
    /\ charge # ElectronCharge(atoms)

ChargeOf(atoms, charge) ==
    IF eE \in DOMAIN atoms /\ charge = NoCharge
    THEN ElectronCharge(atoms)
    ELSE charge

SpeciesObject(name, atoms, charge) ==
    [_name |-> name, _atoms |-> atoms, _charge |-> ChargeOf(atoms, charge)]

\* species.__init__ (lines 500-530) with the composition parsed: the object
\* is appended to _species (line 524) before its name is looked up in
\* _speciesnames (line 526).
SpeciesRegister(species, names, name, atoms, charge) ==
    IF ChargeInconsistent(atoms, charge)
    THEN [exc |-> CTIError("specified charge inconsistent with number of electrons"),
          species |-> species, names |-> names]
    ELSE IF NameDeclared(names, name)
    THEN [exc |-> CTIError(MultiplyDefinedMsg),
          species |-> Append(species, SpeciesObject(name, atoms, charge)),
          names |-> names]
    ELSE [exc |-> NoExc,
          species |-> Append(species, SpeciesObject(name, atoms, charge)),
          names |-> Append(names, name)]

\* species(name, atoms, charge): the registries after the constructor and
\* the exception it ends with.
DeclareSpeciesResult(species, names, name, atoms, charge) ==
    The({ IF AtomsExc(kvs) # NoExc
          THEN [exc |-> AtomsExc(kvs), species |-> species, names |-> names]
          ELSE SpeciesRegister(species, names, name, getAtomicComp(kvs), charge) :
          kvs \in {AtomList(atoms)} })

-----------------------------------------------------------------------------
(* Unit defaults and the conversion factor of a pre-exponential            *)

\* units(): an empty argument leaves the default as it is (lines 284-290).
UnitsResult(cur, arg) == IF arg # "" THEN arg ELSE cur

\* The tables _length, _moles, _time (lines 205-207).  Every entry is a
\* power of 10, of Avogadro's number per kmol (6.023e26) or of 60, so a
\* product of powers of entries is held exactly as three exponents:
\*    value = 10^e10 * (6.023e26)^eAvo * 60^e60.
LengthUnits == {"cm", "m", "mm"}
MolesUnits  == {"kmol", "mol", "molec"}
TimeUnits   == {"s", "min", "hr"}

LengthE10(u) == CASE u = "cm" -> -2 [] u = "m" -> 0 [] u = "mm" -> -3
MolesE10(u)  == CASE u = "kmol" -> 0 [] u = "mol" -> -3 [] u = "molec" -> 0
MolesEAvo(u) == CASE u = "kmol" -> 0 [] u = "mol" -> 0 [] u = "molec" -> -1
TimeE60(u)   == CASE u = "s" -> 0 [] u = "min" -> 1 [] u = "hr" -> 2

\* A dict lookup with a key the table lacks raises KeyError.
UnitsKnown(ulen, umol, utime) ==
    ulen \in LengthUnits /\ umol \in MolesUnits /\ utime \in TimeUnits

\* A unit_factor that raises the length scale to ldim where the code has
\* -ldim; property C4 tells the two apart.
unit_factor_length_inverted(ulen, umol, utime, mdim, ldim) ==
    [e10  |-> LengthE10(ulen) * ldim + MolesE10(umol) * (0 - mdim),
     eAvo |-> MolesEAvo(umol) * (0 - mdim),
     e60  |-> 0 - TimeE60(utime)]

\* reaction.unit_factor:
\*   pow(_length[_ulen], -ldim) * pow(_moles[_umol], -mdim) / _time[_utime]
unit_factor(ulen, umol, utime, mdim, ldim) ==
    [e10  |-> LengthE10(ulen) * (0 - ldim) + MolesE10(umol) * (0 - mdim),
     eAvo |-> MolesEAvo(umol) * (0 - mdim),
     e60  |-> 0 - TimeE60(utime)]

\* The factor 1.0.
UnitOne == [e10 |-> 0, eAvo |-> 0, e60 |-> 0]

-----------------------------------------------------------------------------
(* Reactions: construction                                                 *)

\* A rate expression as declared: the pre-exponential A and the rate type
\* ('' or 'stick').  A is a bare number, [form |-> "num", val |-> v], or a
\* pair (v, unit), [form |-> "pair", val |-> v, unit |-> u].  A sequence
\* [A, n, E] and Arrhenius(A, n, E) build alike (lines 1160-1163); n and E
\* pass through to the document unread and are left out.
NumA(v) == [form |-> "num", val |-> v, unit |-> ""]
PairA(v, u) == [form |-> "pair", val |-> v, unit |-> u]
Arrhenius(A, rate_type) == [A |-> A, type |-> rate_type]

DelimArrowBoth == <<"<", "=", ">">>
DelimArrow     == <<"=", ">">>
DelimEq        == <<"=">>

\* d without key k (del d[k]).
DictDel(d, k) == [x \in DOMAIN d \ {k} |-> d[x]]

\* getPairs (lines 962-968) on the order string: each blank-separated token
\* must split on ':' into exactly two parts, the second a number.  kvs is
\* the sequence of the split tokens.
PairList(s) ==
    The({ [i \in 1..Len(toks) |-> StrSplit(toks[i], <<":">>)] :
            toks \in {Words(s)} })

PairsOk(kvs) ==
    \A i \in 1..Len(kvs) : Len(kvs[i]) = 2 /\ IsFloat(kvs[i][2])

\* The dict getPairs returns: a later token overwrites an earlier one with
\* the same key.
getPairs(kvs) ==
    [k \in {kvs[i][1] : i \in 1..Len(kvs)} |->
        FloatVal(kvs[CHOOSE i \in 1..Len(kvs) :
                       /\ kvs[i][1] = k
                       /\ \A j \in (i + 1)..Len(kvs) : kvs[j][1] # k][2])]

\* A loop that tries '=' before the arrows.
FindDelimEqFirst(e) ==
    IF Contains(e, DelimEq) THEN DelimEq
    ELSE IF Contains(e, DelimArrowBoth) THEN DelimArrowBoth
    ELSE IF Contains(e, DelimArrow) THEN DelimArrow
    ELSE <<>>

\* The delimiter the loop of lines 1007-1012 stops at, <<>> when it finds none.
FindDelim(e) ==
    IF Contains(e, DelimArrowBoth) THEN DelimArrowBoth
    ELSE IF Contains(e, DelimArrow) THEN DelimArrow
    ELSE IF Contains(e, DelimEq) THEN DelimEq
    ELSE <<>>

\* The attribute rev: 1 or 0 once set, "unset" when the loop found no
\* delimiter (the attribute then does not exist).
RevOf(delim) ==
    IF delim = <<>> THEN "unset"
    ELSE IF delim \in {DelimArrowBoth, DelimEq} THEN "yes" ELSE "no"

\* Lines 1007-1012: the two sides of the equation.  r and p start as '' and
\* stay so when no delimiter is found; with a delimiter they are the parts
\* of self._e.split(delimiter), which unpack only when there are two.
Sides(equation, delim) ==
    IF delim = <<>> THEN <<<<>>, <<>>>> ELSE StrSplit(equation, delim)

\* An order dict that ignores the order argument.
RxnOrderOfCoefficients(d, ord) == d

\* Lines 1016-1021: the copy of the reactant dict d with the entries of the
\* order dict ord put over it.
RxnOrder(d, ord) ==
    [s \in DOMAIN d |-> IF s \in DOMAIN ord THEN ord[s] ELSE d[s]]

\* The object reaction.__init__ leaves: rs and ps are the results of
\* getReactionSpecies on the two sides, ord the dict of getPairs.
ReactionObject(reactions, equation, kf, id, order, delim, rs, ps, ord) ==
    [ _id |-> id, _e |-> equation, _order |-> order,
      _num |-> Len(reactions) + 1,
      rev |-> RevOf(delim),
      _r |-> rs.d, _p |-> ps.d,
      _rxnorder |-> RxnOrder(rs.d, ord),
      _kf |-> kf, _kfwrapped |-> 0,
      _igspecies |-> <<>>, _dims |-> <<0, 0, 0, 0>>,
      _rxnphase |-> 0, _type |-> "",
      _eff |-> <<>>, _effm |-> 1,
      pressures |-> <<>>,
      mdim |-> 0, ldim |-> 0 ]

\* Lines 1014-1030, with both sides parsed.
InitParsed(reactions, equation, kf, id, order, delim, rs, ps) ==
    The({ IF ~PairsOk(kvs)
          THEN [exc |-> Exc("ValueError", "getPairs"), rx |-> <<>>,
                registered |-> FALSE, diags |-> rs.diags \o ps.diags]
          ELSE The({ IF \E o \in DOMAIN ord : o \notin DOMAIN rs.d
                     THEN [exc |-> CTIError("order specified for non-reactant"),
                           rx |-> <<>>, registered |-> FALSE,
                           diags |-> rs.diags \o ps.diags]
                     ELSE [exc |-> NoExc,
                           rx |-> ReactionObject(reactions, equation, kf, id,
                                                 order, delim, rs, ps, ord),
                           registered |-> TRUE,
                           diags |-> rs.diags \o ps.diags] :
                     ord \in {getPairs(kvs)} }) :
          kvs \in {PairList(order)} })

\* Lines 1007-1016, with the delimiter found.
InitSplit(reactions, equation, kf, id, order, delim) ==
    The({ IF Len(parts) # 2
          THEN [exc |-> Exc("ValueError", "too many values to unpack"),
                rx |-> <<>>, registered |-> FALSE, diags |-> <<>>]
          ELSE The({ InitParsed(reactions, equation, kf, id, order, delim, rs, ps) :
                     rs \in {getReactionSpecies(parts[1])},
                     ps \in {getReactionSpecies(parts[2])} }) :
          parts \in {Sides(equation, delim)} })

\* reaction.__init__ (lines 995-1030) against the registry `reactions`.
\* Result: [exc, rx, registered, diags]; rx is the object as the constructor
\* leaves it (<<>> when it raised), registered tells whether line 1030
\* appended it.
reaction_init(reactions, equation, kf, id, order) ==
    The({ InitSplit(reactions, equation, kf, id, order, delim) :
            delim \in {FindDelim(equation)} })


\* three_body_reaction.__init__ (lines 1216-1227), after reaction.__init__
\* returned: every key equal to 'M' or 'm' leaves both dicts.
ThirdBodyTokens == {<<"M">>, <<"m">>}

\* A cleanup that deletes nothing.
StripNothing(d) == d

StripThirdBody(d) == [k \in DOMAIN d \ ThirdBodyTokens |-> d[k]]

three_body_cleanup(rx, efficiencies) ==
    [rx EXCEPT !._type = "threeBody", !._effm = 1, !._eff = efficiencies,
               !._r = StripThirdBody(rx._r), !._p = StripThirdBody(rx._p)]

\* falloff_reaction.__init__, lines 1291-1300: one pass of the loop over the
\* reactant keys.  st = [rx, exc].
OpenParen  == <<"(", "+">>
CloseM     == <<"M", ")">>
CloseLowM  == <<"m", ")">>
OneEff     == <<":", "1", ".", "0">>

IsNamedThirdBody(k) ==
    k[Len(k)] = ")" /\ \A i \in 1..Len(k) : k[i] # "("

FalloffKeyStep(st, k) ==
    IF ~IsNamedThirdBody(k) THEN st
    ELSE IF st.rx._eff # <<>>
    THEN [st EXCEPT !.exc = CTIError("third body and efficiencies cannot both be specified")]
    ELSE IF k \notin DOMAIN st.rx._p
    THEN [rx |-> [st.rx EXCEPT !._eff = SubSeq(k, 1, Len(k) - 1) \o OneEff,
                               !._effm = 0,
                               !._r = DictDel(@, k)],
          exc |-> Exc("KeyError", "del self._p[r]")]
    ELSE [rx |-> [st.rx EXCEPT !._eff = SubSeq(k, 1, Len(k) - 1) \o OneEff,
                               !._effm = 0,
                               !._r = DictDel(@, k),
                               !._p = DictDel(@, k)],
          exc |-> NoExc]

\* Every outcome of the loop, over the orders in which the dict may hand out
\* the keys `left` (taken once, before the loop starts).
RECURSIVE FalloffKeyLoop(_, _)
FalloffKeyLoop(st, left) ==
    IF left = {} \/ st.exc # NoExc THEN {st}
    ELSE UNION { FalloffKeyLoop(st2.st, st2.left) :
                   st2 \in { [st |-> FalloffKeyStep(st, k), left |-> left \ {k}] :
                               k \in left } }

\* A constructor that does not look for 'M)' or 'm)' and so takes the
\* generic third body for a named one; property C5 tells the two apart.
ClosingKeyNotSought(r) == <<>>

\* The key lines 1283-1290 delete from both dicts: 'M)', else 'm)', else
\* none (<<>>).
ClosingKey(r) ==
    IF CloseM \in DOMAIN r THEN CloseM
    ELSE IF CloseLowM \in DOMAIN r THEN CloseLowM
    ELSE <<>>

\* Lines 1283-1300, with '(+' gone from both dicts.
FalloffThirdBody(rx) ==
    The({ IF m = <<>>
          THEN FalloffKeyLoop([rx |-> rx, exc |-> NoExc], DOMAIN rx._r)
          ELSE IF m \notin DOMAIN rx._p
          THEN {[rx |-> [rx EXCEPT !._r = DictDel(@, m)],
                 exc |-> Exc("KeyError", "del self._p['M)']")]}
          ELSE {[rx |-> [rx EXCEPT !._r = DictDel(@, m), !._p = DictDel(@, m)],
                 exc |-> NoExc]} :
          m \in {ClosingKey(rx._r)} })

\* falloff_reaction.__init__, lines 1272-1300, after reaction.__init__
\* returned.  The set of [rx, exc] the constructor can end in.
falloff_cleanup(rx, efficiencies) ==
    IF OpenParen \notin DOMAIN rx._r
    THEN {[rx |-> [rx EXCEPT !._type = "falloff", !._effm = 1,
                             !._eff = efficiencies],
           exc |-> Exc("KeyError", "del self._r['(+']")]}
    ELSE IF OpenParen \notin DOMAIN rx._p
    THEN {[rx |-> [rx EXCEPT !._type = "falloff", !._effm = 1,
                             !._eff = efficiencies,
                             !._r = DictDel(@, OpenParen)],
           exc |-> Exc("KeyError", "del self._p['(+']")]}
    ELSE UNION { FalloffThirdBody(b) :
                   b \in {[rx EXCEPT !._type = "falloff", !._effm = 1,
                                     !._eff = efficiencies,
                                     !._r = DictDel(@, OpenParen),
                                     !._p = DictDel(@, OpenParen)]} }

ReactionClasses == {"reaction", "three_body_reaction", "falloff_reaction",
                    "pdep_arrhenius", "surface_reaction", "edge_reaction"}

\* The _type each subclass constructor sets after reaction.__init__.
TypeOf(cls) ==
    CASE cls = "reaction" -> ""
      [] cls = "three_body_reaction" -> "threeBody"
      [] cls = "falloff_reaction" -> "falloff"
      [] cls = "pdep_arrhenius" -> "plog"
      [] cls = "surface_reaction" -> "surface"
      [] cls = "edge_reaction" -> "edge"

\* The constructor of class cls.  kf is the sequence of rate expressions the
\* class hands to reaction.__init__: one, or (kf, kf0) for a falloff
\* reaction (line 1270).  three_body_reaction and falloff_reaction pass ''
\* for order (lines 1216, 1271).  The set of results
\* [exc, reactions, diags]: the exception raised, the registry and the
\* diagnostics of reaction.__init__ as the constructor leaves them.
SubclassInit(rx, cls, efficiencies) ==
    IF cls = "falloff_reaction" THEN falloff_cleanup(rx, efficiencies)
    ELSE IF cls = "three_body_reaction"
    THEN {[rx |-> three_body_cleanup(rx, efficiencies), exc |-> NoExc]}
    ELSE {[rx |-> [rx EXCEPT !._type = TypeOf(cls)], exc |-> NoExc]}

\* pdep_arrhenius.__init__ (lines 1327-1335): each argument
\* (p, A, n, Ea), here [P, A], goes to the list of pressures and to the
\* list of rate expressions handed to reaction.__init__; an expression
\* given as a tuple becomes an Arrhenius instance in build (line 1163).
PlogArg(p, A) == [P |-> p, A |-> A]

PlogArrhenius(args) == [j \in 1..Len(args) |-> Arrhenius(args[j].A, "")]

PlogPressures(args) == [j \in 1..Len(args) |-> args[j].P]

DeclareReactionResults(reactions, cls, equation, kf, efficiencies, id, order) ==
    UNION { IF ~base.registered
            THEN {[exc |-> base.exc, reactions |-> reactions, diags |-> base.diags]}
            ELSE {[exc |-> e.exc,
                   reactions |-> Append(reactions,
                       IF cls = "pdep_arrhenius"
                       THEN [e.rx EXCEPT !.pressures = PlogPressures(kf)]
                       ELSE e.rx),
                   diags |-> base.diags] :
                   e \in SubclassInit(base.rx, cls, efficiencies)} :
            base \in {reaction_init(reactions, equation,
                        IF cls = "pdep_arrhenius" THEN PlogArrhenius(kf) ELSE kf, id,
                        IF cls \in {"three_body_reaction", "falloff_reaction"}
                        THEN <<>> ELSE order)} }

-----------------------------------------------------------------------------
(* Reactions: emission                                                     *)

DigitChar(n) ==
    CASE n = 0 -> "0" [] n = 1 -> "1" [] n = 2 -> "2" [] n = 3 -> "3"
      [] n = 4 -> "4" [] n = 5 -> "5" [] n = 6 -> "6" [] n = 7 -> "7"
      [] n = 8 -> "8" [] n = 9 -> "9"

\* str(n) for n >= 0
RECURSIVE IntStr(_)
IntStr(n) == IF n < 10 THEN <<DigitChar(n)>>
             ELSE IntStr(n \div 10) \o <<DigitChar(n % 10)>>

\* A build that pads every number with three zeros, as lines 1044-1045 do
\* for the numbers below 10; property C12 tells the two apart.
ReactionIdThreeZeros(rx) ==
    IF rx._id # <<>> THEN rx._id ELSE <<"0", "0", "0">> \o IntStr(rx._num)

\* Lines 1041-1052: the id of the reaction node.
ReactionId(rx) ==
    IF rx._id # <<>> THEN rx._id
    ELSE IF rx._num < 10 THEN <<"0", "0", "0">> \o IntStr(rx._num)
    ELSE IF rx._num < 100 THEN <<"0", "0">> \o IntStr(rx._num)
    ELSE IF rx._num < 1000 THEN <<"0">> \o IntStr(rx._num)
    ELSE IntStr(rx._num)

\* A scan that keeps the last phase that has species s.
LastPhaseWith(phases, s) ==
    IF \E i \in 1..Len(phases) : has_species(phases[i], s)
    THEN CHOOSE i \in 1..Len(phases) :
            /\ has_species(phases[i], s)
            /\ \A j \in (i + 1)..Len(phases) : ~has_species(phases[j], s)
    ELSE 0

\* Index of the first phase that has species s, 0 when none has it
\* (the loop of lines 1067-1078 breaks at the first match).
FirstPhaseWith(phases, s) ==
    IF \E i \in 1..Len(phases) : has_species(phases[i], s)
    THEN CHOOSE i \in 1..Len(phases) :
            /\ has_species(phases[i], s)
            /\ \A j \in 1..(i - 1) : ~has_species(phases[j], s)
    ELSE 0

\* mindim as line 1066 sets it, once per reactant species.
MinDimStart == 4

\* Lines 1069-1077 and 1082-1083 for reactant species s found in phase i.
\* st = [rx, rxnph, exc]; rx carries mdim, ldim, _igspecies, _dims and
\* _rxnphase, rxnph is the list of phases met so far.  mindim is 4 again
\* for each species, so a phase met for the first time always becomes
\* _rxnphase.
SpeciesInPhase(st, s, i, ph, cd, ns) ==
    IF \A j \in 1..Len(st.rxnph) : st.rxnph[j] # i
    THEN [rx |-> [st.rx EXCEPT
                    !._igspecies = IF is_ideal_gas(ph) THEN Append(@, s) ELSE @,
                    !._dims[ph._dim + 1] = @ + 1,
                    !._rxnphase = IF ph._dim < MinDimStart THEN i ELSE @,
                    !.mdim = @ + cd[1] * ns,
                    !.ldim = @ + cd[2] * ns],
          rxnph |-> Append(st.rxnph, i),
          exc |-> NoExc]
    ELSE [rx |-> [st.rx EXCEPT
                    !._igspecies = IF is_ideal_gas(ph) THEN Append(@, s) ELSE @,
                    !.mdim = @ + cd[1] * ns,
                    !.ldim = @ + cd[2] * ns],
          rxnph |-> st.rxnph,
          exc |-> NoExc]

\* One pass of the loop of lines 1060-1083, for reactant species s.
SpeciesStep(phases, st, s) ==
    The({ IF i = 0
          THEN [st EXCEPT !.exc = CTIError("species not found")]
          ELSE The({ SpeciesInPhase(st, s, i, ph, conc_dim(ph), st.rx._rxnorder[s]) :
                       ph \in {phases[i]} }) :
          i \in {FirstPhaseWith(phases, s)} })

\* Every outcome of the loop, over the orders in which self._r hands out
\* its keys.
RECURSIVE SpeciesLoop(_, _, _)
SpeciesLoop(phases, st, left) ==
    IF left = {} \/ st.exc # NoExc THEN {st}
    ELSE UNION { SpeciesLoop(phases, n.st, n.left) :
                   n \in { [st |-> SpeciesStep(phases, st, s), left |-> left \ {s}] :
                             s \in left } }

\* A build without the checks of lines 1116-1119 and 1123-1126; property
\* C10 tells the two apart.
TypeCorrectionUnchecked(rx) ==
    IF rx._type = "surface"
    THEN [rx |-> [rx EXCEPT !.mdim = @ - 1, !.ldim = @ + 2], exc |-> NoExc]
    ELSE IF rx._type = "edge"
    THEN [rx |-> [rx EXCEPT !.mdim = @ - 1, !.ldim = @ + 1], exc |-> NoExc]
    ELSE [rx |-> [rx EXCEPT !.mdim = @ - 1, !.ldim = @ + 3], exc |-> NoExc]

\* A build whose check of a surface reaction counts the surface phases
\* only (`p[2] > 1` alone at line 1117).
TypeCorrectionSurfaceCount(rx) ==
    IF rx._type = "surface"
    THEN [rx  |-> [rx EXCEPT !.mdim = @ - 1, !.ldim = @ + 2],
          exc |-> IF rx._dims[3] > 1
                  THEN CTIError("A surface reaction may contain at most one surface phase")
                  ELSE NoExc]
    ELSE IF rx._type = "edge"
    THEN [rx  |-> [rx EXCEPT !.mdim = @ - 1, !.ldim = @ + 1],
          exc |-> IF rx._dims[1] # 0 \/ rx._dims[2] > 1
                  THEN CTIError("An edge reaction may contain at most one edge phase")
                  ELSE NoExc]
    ELSE [rx |-> [rx EXCEPT !.mdim = @ - 1, !.ldim = @ + 3], exc |-> NoExc]

\* Lines 1113-1129: the correction for the dimensions of the rate of
\* progress, and the phase counts a surface or an edge reaction may have.
\* _dims[k] of the code is _dims[k + 1] here.
TypeCorrection(rx) ==
    IF rx._type = "surface"
    THEN [rx  |-> [rx EXCEPT !.mdim = @ - 1, !.ldim = @ + 2],
          exc |-> IF rx._dims[1] # 0 \/ rx._dims[2] # 0 \/ rx._dims[3] > 1
                  THEN CTIError("A surface reaction may contain at most one surface phase")
                  ELSE NoExc]
    ELSE IF rx._type = "edge"
    THEN [rx  |-> [rx EXCEPT !.mdim = @ - 1, !.ldim = @ + 1],
          exc |-> IF rx._dims[1] # 0 \/ rx._dims[2] > 1
                  THEN CTIError("An edge reaction may contain at most one edge phase")
                  ELSE NoExc]
    ELSE [rx |-> [rx EXCEPT !.mdim = @ - 1, !.ldim = @ + 3], exc |-> NoExc]

\* Lines 1141-1152: the types whose _kf build() wraps in a list; threeBody
\* also shifts the dimensions.
WrapsKf(type) == type \in {"", "surface", "edge", "threeBody"}

\* A wrapping that leaves the dimensions of a three-body reaction alone.
KfCorrectionUnshifted(rx) ==
    IF WrapsKf(rx._type) THEN [rx EXCEPT !._kfwrapped = @ + 1] ELSE rx

KfCorrection(rx) ==
    IF rx._type = "threeBody"
    THEN [rx EXCEPT !._kfwrapped = @ + 1, !.mdim = @ + 1, !.ldim = @ - 3]
    ELSE IF WrapsKf(rx._type)
    THEN [rx EXCEPT !._kfwrapped = @ + 1]
    ELSE rx

SitePerUnit == "/site"

\* Arrhenius.build (lines 910-939).  Result [exc, node]; node is the
\* Arrhenius element: its name, the species attribute of a sticking rate,
\* and the A child: [form |-> "scaled", val, factor] for val * factor,
\* [form |-> "persite", val, sitedens] for val / sitedens,
\* [form |-> "literal", val, unit] for a value written as given.
NoNode == [name |-> "", species |-> <<>>, A |-> [form |-> "none"]]

RateNode(name, species, a) ==
    [exc |-> NoExc, node |-> [name |-> name, species |-> species, A |-> a]]

RateFail(e) == [exc |-> e, node |-> NoNode]

\* A sticking branch that keeps the factor it was handed.
StickFactorKept(k, units_factor) == units_factor

\* Line 926: units_factor = 1.0 for a sticking rate.
StickFactor(k, units_factor) ==
    IF k.type = "stick" THEN UnitOne ELSE units_factor

\* Lines 917-926: the sticking branch replaces the factor by 1.0 and names
\* the one gas species.
Arrhenius_build(k, units_factor, gas_species, name, rxn_phase, phases) ==
    IF k.type = "stick" /\ Len(gas_species) # 1
    THEN RateFail(CTIError(
             "Sticking probabilities can only be used for reactions with one gas-phase reactant"))
    ELSE IF k.A.form = "num"
    THEN RateNode(name,
                  IF k.type = "stick" THEN gas_species[1] ELSE <<>>,
                  [form |-> "scaled", val |-> k.A.val,
                   factor |-> StickFactor(k, units_factor)])
    ELSE IF k.A.unit = SitePerUnit
    THEN IF rxn_phase = 0
         THEN RateFail(Exc("AttributeError", "'NoneType' object has no attribute '_sitedens'"))
         ELSE IF phases[rxn_phase].kind \notin {"ideal_interface", "edge"}
         THEN RateFail(Exc("AttributeError", "phase has no attribute '_sitedens'"))
         ELSE IF phases[rxn_phase]._sitedens = 0
         THEN RateFail(Exc("ZeroDivisionError", "division by zero"))
         ELSE RateNode(name,
                       IF k.type = "stick" THEN gas_species[1] ELSE <<>>,
                       [form |-> "persite", val |-> k.A.val,
                        sitedens |-> phases[rxn_phase]._sitedens])
    ELSE RateNode(name,
                  IF k.type = "stick" THEN gas_species[1] ELSE <<>>,
                  [form |-> "literal", val |-> k.A.val, unit |-> k.A.unit])

\* A pass that names the second rate expression of a falloff reaction but
\* leaves the dimensions alone.
RateStepUnshifted(st, r) ==
    IF r.exc # NoExc THEN [st EXCEPT !.exc = r.exc]
    ELSE IF st.rx._type = "falloff"
    THEN [st EXCEPT !.nodes = Append(@, r.node), !.nm = "k0"]
    ELSE [st EXCEPT !.nodes = Append(@, r.node)]

\* A pass that shifts the dimensions after every rate expression, whatever
\* the type of the reaction.
RateStepEveryType(st, r) ==
    IF r.exc # NoExc THEN [st EXCEPT !.exc = r.exc]
    ELSE [rx    |-> [st.rx EXCEPT !.mdim = @ + 1, !.ldim = @ - 3],
          nodes |-> Append(st.nodes, r.node),
          nm    |-> IF st.rx._type = "falloff" THEN "k0" ELSE st.nm,
          exc   |-> NoExc]

\* Lines 1164-1171 for one rate expression, built into r.
\* st = [rx, nodes, nm, exc].
RateStep(st, r) ==
    IF r.exc # NoExc THEN [st EXCEPT !.exc = r.exc]
    ELSE IF st.rx._type = "falloff"
    THEN [rx    |-> [st.rx EXCEPT !.mdim = @ + 1, !.ldim = @ - 3],
          nodes |-> Append(st.nodes, r.node),
          nm    |-> "k0", exc |-> NoExc]
    ELSE [st EXCEPT !.nodes = Append(@, r.node)]

\* The loop of lines 1159-1171 over the rate expressions kfs, at number i.
RECURSIVE RateLoop(_, _, _, _, _, _, _)
RateLoop(st, kfs, i, phases, ulen, umol, utime) ==
    IF i > Len(kfs) \/ st.exc # NoExc THEN st
    ELSE IF ~UnitsKnown(ulen, umol, utime)
    THEN [st EXCEPT !.exc = Exc("KeyError", "unit_factor")]
    ELSE The({ RateLoop(st2, kfs, i + 1, phases, ulen, umol, utime) :
                 st2 \in { The({ RateStep(st, r) :
                     r \in { Arrhenius_build(kfs[i],
                               unit_factor(ulen, umol, utime, st.rx.mdim, st.rx.ldim),
                               st.rx._igspecies, st.nm, st.rx._rxnphase, phases) } }) } })

\* A build that writes the efficiencies child only for a positive default
\* (`> 0.0` where the code has `>= 0.0`); property C6 tells the two apart.
HasEfficienciesPositiveDefault(rx) == rx._eff # <<>> /\ rx._effm > 0

\* The efficiencies child that three_body_reaction.build (lines 1234-1236)
\* and falloff_reaction.build (lines 1308-1310) add to rateCoeff.
HasEfficiencies(rx) ==
    CASE rx._type = "threeBody" -> rx._eff # <<>>
      [] rx._type = "falloff" -> rx._eff # <<>> /\ rx._effm >= 0
      [] OTHER -> FALSE

NoReactionNode == [id |-> <<>>]

BuildFail(rx, e) == [exc |-> e, rx |-> rx, node |-> NoReactionNode]

\* Lines 1173-1181 and the subclass build: the reaction element, once the
\* loop over the rate expressions ended in rl.
ReactionNode(rl) ==
    IF rl.exc # NoExc THEN BuildFail(rl.rx, rl.exc)
    ELSE [exc |-> NoExc, rx |-> rl.rx,
          node |-> [id |-> ReactionId(rl.rx),
                    reversible |-> rl.rx.rev,
                    type |-> rl.rx._type,
                    rateCoeff |-> rl.nodes,
                    pressures |-> rl.rx.pressures,
                    reactants |-> rl.rx._r,
                    products |-> rl.rx._p,
                    hasEfficiencies |-> HasEfficiencies(rl.rx),
                    efficiencies |-> rl.rx._eff,
                    effDefault |-> rl.rx._effm]]

\* Lines 1139-1171, with the dimensions corrected for the type in tc.  A
\* _kf wrapped a second time holds a list where a rate expression is
\* expected, and kf[0], kf[1], kf[2] runs past its one element.
BuildRates(tc, phases, ulen, umol, utime) ==
    IF tc.exc # NoExc THEN BuildFail(tc.rx, tc.exc)
    ELSE The({ IF WrapsKf(kc._type) /\ kc._kfwrapped > 1
               THEN BuildFail(kc, Exc("IndexError", "list index out of range"))
               ELSE The({ ReactionNode(rl) :
                            rl \in { RateLoop([rx |-> kc, nodes |-> <<>>,
                                               nm |-> "", exc |-> NoExc],
                                              kc._kf, 1, phases, ulen, umol, utime) } }) :
               kc \in {KfCorrection(tc.rx)} })

\* build() of the reaction's class, after the species loop ended in st.
\* Result [exc, rx, node]: the exception raised, the reaction object as
\* build leaves it, and the reaction element added to the document.
BuildTail(st, phases, ulen, umol, utime) ==
    IF st.exc # NoExc THEN BuildFail(st.rx, st.exc)
    ELSE IF st.rx.rev = "unset"
    THEN BuildFail(st.rx, Exc("AttributeError", "reaction instance has no attribute 'rev'"))
    ELSE The({ BuildRates(tc, phases, ulen, umol, utime) :
                 tc \in {TypeCorrection(st.rx)} })

\* build() of one reaction: every outcome, over the iteration orders of the
\* reactant dict.  Lines 1055-1056 reset mdim and ldim; _igspecies, _dims
\* and _rxnphase keep what an earlier build left in them.
reaction_build(rx, phases, ulen, umol, utime) ==
    { BuildTail(st, phases, ulen, umol, utime) :
        st \in SpeciesLoop(phases,
                           [rx |-> [rx EXCEPT !.mdim = 0, !.ldim = 0],
                            rxnph |-> <<>>, exc |-> NoExc],
                           DOMAIN rx._r) }

-----------------------------------------------------------------------------
(* write()                                                                 *)

\* phase.build of every class ends normally except redlich_kwong.build
\* (lines 2094-2105), which reads the attribute _mw no constructor sets.
PhaseBuildExc(ph) ==
    IF ph.kind = "redlich_kwong"
    THEN Exc("AttributeError", "redlich_kwong instance has no attribute '_mw'")
    ELSE NoExc

\* Line 320 for reaction i: acc = [exc, reactions, nodes] after the build
\* ended in b.
ReactionStep(acc, i, b) ==
    [exc |-> b.exc,
     reactions |-> [acc.reactions EXCEPT ![i] = b.rx],
     nodes |-> IF b.exc = NoExc THEN Append(acc.nodes, b.node) ELSE acc.nodes]

\* The loop of lines 319-320 over the reactions lo..hi, in order, left at
\* the first build that raises.  acc = [exc, reactions, nodes]; the set of
\* its possible ends.  The range is walked as its first half followed by
\* its second half.
RECURSIVE ReactionsLoop(_, _, _, _, _, _, _)
ReactionsLoop(acc, lo, hi, phases, ulen, umol, utime) ==
    IF lo > hi \/ acc.exc # NoExc THEN {acc}
    ELSE IF lo = hi
    THEN { ReactionStep(acc, lo, b) :
             b \in reaction_build(acc.reactions[lo], phases, ulen, umol, utime) }
    ELSE UNION { ReactionsLoop(acc2, ((lo + hi) \div 2) + 1, hi,
                               phases, ulen, umol, utime) :
                 acc2 \in ReactionsLoop(acc, lo, (lo + hi) \div 2,
                                        phases, ulen, umol, utime) }

\* The phases whose build raises, in registry order.
FirstBadPhase(phases) ==
    IF \E i \in 1..Len(phases) : PhaseBuildExc(phases[i]) # NoExc
    THEN CHOOSE i \in 1..Len(phases) :
            /\ PhaseBuildExc(phases[i]) # NoExc
            /\ \A j \in 1..(i - 1) : PhaseBuildExc(phases[j]) = NoExc
    ELSE 0

\* A write() that converts with the unit defaults of the start of the run
\* instead of those in force when it is called; property C9 tells the two
\* apart.
write_results_initial_units(phases, reactions, ulen, umol, utime) ==
    IF FirstBadPhase(phases) # 0
    THEN {[exc |-> PhaseBuildExc(phases[FirstBadPhase(phases)]),
           reactions |-> reactions, nodes |-> <<>>]}
    ELSE ReactionsLoop([exc |-> NoExc, reactions |-> reactions, nodes |-> <<>>],
                       1, Len(reactions), phases, "m", "kmol", "s")

\* write() (lines 300-325).  The set of [exc, reactions, nodes]: the
\* exception that left write() (NoExc when x.write was reached), the
\* reaction objects as the builds leave them, and the reaction elements of
\* the tree.
write_results(phases, reactions, ulen, umol, utime) ==
    IF FirstBadPhase(phases) # 0
    THEN {[exc |-> PhaseBuildExc(phases[FirstBadPhase(phases)]),
           reactions |-> reactions, nodes |-> <<>>]}
    ELSE ReactionsLoop([exc |-> NoExc, reactions |-> reactions, nodes |-> <<>>],
                       1, Len(reactions), phases, ulen, umol, utime)

-----------------------------------------------------------------------------
(* The run                                                                 *)

\* The diagnostics after an exception e: CTI_Error prints when constructed.
WithDiag(ds, e) == IF e.type = "CTI_Error" THEN Append(ds, e.msg) ELSE ds

Init ==
    /\ _ulen = "m"
    /\ _umol = "kmol"
    /\ _utime = "s"
    /\ _species = <<>>
    /\ _speciesnames = <<>>
    /\ _phases = <<>>
    /\ _reactions = <<>>
    /\ unitsAtDecl = <<>>
    /\ entry = [op |-> "none"]
    /\ diags = <<>>
    /\ status = "declaring"
    /\ exc = NoExc
    /\ doc = <<>>

\* units(length, quantity, time)
Units(length, quantity, time) ==
    /\ status = "declaring"
    /\ _ulen' = UnitsResult(_ulen, length)
    /\ _umol' = UnitsResult(_umol, quantity)
    /\ _utime' = UnitsResult(_utime, time)
    /\ entry' = [op |-> "units", length |-> length, quantity |-> quantity,
                 time |-> time]
    /\ UNCHANGED <<_species, _speciesnames, _phases, _reactions, unitsAtDecl,
                   diags, status, exc, doc>>

\* A phase entry of the input file.
DeclarePhase(kind, name, species, density, site_density) ==
    /\ status = "declaring"
    /\ \E res \in {DeclarePhaseResult(_phases, kind, name, species,
                                       density, site_density)} :
           /\ _phases' = res.phases
           /\ exc' = res.exc
           /\ diags' = WithDiag(diags, res.exc)
           /\ status' = IF res.exc = NoExc THEN "declaring" ELSE "aborted"
    /\ entry' = [op |-> "phase", kind |-> kind, name |-> name,
                 species |-> species, density |-> density]
    /\ UNCHANGED <<_species, _speciesnames, _ulen, _umol, _utime, _reactions, unitsAtDecl, doc>>

\* A phase entry of the base class.
DeclareBasePhase(name, dim, species) ==
    /\ status = "declaring"
    /\ \E res \in {DeclareBasePhaseResult(_phases, name, dim, species)} :
           /\ _phases' = res.phases
           /\ exc' = res.exc
           /\ diags' = WithDiag(diags, res.exc)
           /\ status' = IF res.exc = NoExc THEN "declaring" ELSE "aborted"
    /\ entry' = [op |-> "phase", kind |-> "phase", name |-> name,
                 species |-> species, density |-> -1, dim |-> dim]
    /\ UNCHANGED <<_species, _speciesnames, _ulen, _umol, _utime, _reactions,
                   unitsAtDecl, doc>>

\* A lattice entry.
DeclareLattice(name, species, site_density) ==
    /\ status = "declaring"
    /\ \E res \in {DeclareLatticeResult(_phases, name, species, site_density)} :
           /\ _phases' = res.phases
           /\ exc' = res.exc
           /\ diags' = WithDiag(diags, res.exc)
           /\ status' = IF res.exc = NoExc THEN "declaring" ELSE "aborted"
    /\ entry' = [op |-> "phase", kind |-> "lattice", name |-> name,
                 species |-> species, density |-> -1]
    /\ UNCHANGED <<_species, _speciesnames, _ulen, _umol, _utime, _reactions,
                   unitsAtDecl, doc>>

\* A lattice_solid entry over the lattice objects `lattices`.
DeclareLatticeSolid(name, lattices) ==
    /\ status = "declaring"
    /\ \E res \in {DeclareLatticeSolidResult(_phases, name, lattices)} :
           /\ _phases' = res.phases
           /\ exc' = res.exc
           /\ diags' = WithDiag(diags, res.exc)
           /\ status' = IF res.exc = NoExc THEN "declaring" ELSE "aborted"
    /\ entry' = [op |-> "phase", kind |-> "lattice_solid", name |-> name,
                 species |-> Join(LatticeSpecies(<<>>, lattices, 1)),
                 density |-> -1]
    /\ UNCHANGED <<_species, _speciesnames, _ulen, _umol, _utime, _reactions,
                   unitsAtDecl, doc>>

\* A species entry of the input file.
DeclareSpecies(name, atoms, charge) ==
    /\ status = "declaring"
    /\ \E res \in {DeclareSpeciesResult(_species, _speciesnames, name, atoms,
                                         charge)} :
           /\ _species' = res.species
           /\ _speciesnames' = res.names
           /\ exc' = res.exc
           /\ diags' = WithDiag(diags, res.exc)
           /\ status' = IF res.exc = NoExc THEN "declaring" ELSE "aborted"
    /\ entry' = [op |-> "species", name |-> name, atoms |-> atoms,
                 charge |-> charge]
    /\ UNCHANGED <<_ulen, _umol, _utime, _phases, _reactions, unitsAtDecl, doc>>

\* A reaction entry of the input file.
DeclareReaction(cls, equation, kf, efficiencies, id, order) ==
    /\ status = "declaring"
    /\ \E res \in DeclareReactionResults(_reactions, cls, equation, kf,
                                          efficiencies, id, order) :
           /\ _reactions' = res.reactions
           /\ unitsAtDecl' = IF Len(res.reactions) > Len(_reactions)
                             THEN Append(unitsAtDecl, <<_ulen, _umol, _utime>>)
                             ELSE unitsAtDecl
           /\ exc' = res.exc
           /\ diags' = WithDiag(diags \o res.diags, res.exc)
           /\ status' = IF res.exc = NoExc THEN "declaring" ELSE "aborted"
    /\ entry' = [op |-> "reaction", cls |-> cls, equation |-> equation,
                 kf |-> kf, efficiencies |-> efficiencies]
    /\ UNCHANGED <<_species, _speciesnames, _ulen, _umol, _utime, _phases, doc>>

\* write(), called once the input file has been executed.
Write ==
    /\ status = "declaring"
    /\ \E res \in write_results(_phases, _reactions, _ulen, _umol, _utime) :
           /\ _reactions' = res.reactions
           /\ exc' = res.exc
           /\ diags' = WithDiag(diags, res.exc)
           /\ status' = IF res.exc = NoExc THEN "written" ELSE "write_aborted"
           /\ doc' = IF res.exc = NoExc THEN res.nodes ELSE <<>>
    /\ entry' = [op |-> "write"]
    /\ UNCHANGED <<_species, _speciesnames, _ulen, _umol, _utime, _phases, unitsAtDecl>>

\* write() called again after a document was written, as when the input
\* file calls write() itself and convert() (line 2432) calls it once more:
\* every reaction is built a second time.
WriteAgain ==
    /\ status = "written"
    /\ \E res \in write_results(_phases, _reactions, _ulen, _umol, _utime) :
           /\ _reactions' = res.reactions
           /\ exc' = res.exc
           /\ diags' = WithDiag(diags, res.exc)
           /\ status' = IF res.exc = NoExc THEN "written_again" ELSE "write_aborted"
           /\ doc' = IF res.exc = NoExc THEN res.nodes ELSE <<>>
    /\ entry' = [op |-> "write"]
    /\ UNCHANGED <<_species, _speciesnames, _ulen, _umol, _utime, _phases, unitsAtDecl>>

-----------------------------------------------------------------------------
(* Inputs                                                                  *)

MaxPhases == 2
MaxReactions == 1

sA == <<"A">>
sB == <<"B">>
sC == <<"C">>
tPlus == <<"+">>
tM == <<"M">>
tNeg2 == <<"-", "2">>
tOpenM == <<"(", "+", "M", ")">>
tCloseB == <<"B", ")">>
tOpenB == <<"(", "+", "B", ")">>

\* Species arguments of a phase: 'A', 'B', 'A B', '' and 'A A'.
SpeciesArgs == {sA, sB, Join(<<sA, sB>>)}
BadSpeciesArgs == {<<>>, Join(<<sA, sA>>)}

PhaseNames == {"p", "q"}

\* 'A + B => C', 'A => -2 B', '-2 A => B' and, with no delimiter, 'A + B'.
EqBimolecular == Join(<<sA, tPlus, sB, DelimArrow, sC>>)
EqNegProduct  == Join(<<sA, DelimArrow, tNeg2, sB>>)
EqNegReactant == Join(<<tNeg2, sA, DelimArrow, sB>>)
EqNoDelim     == Join(<<sA, tPlus, sB>>)
PlainEquations == {EqBimolecular, EqNegProduct, EqNegReactant, EqNoDelim}

\* 'A + M <=> B + M'
EqThreeBody == Join(<<sA, tPlus, tM, DelimArrowBoth, sB, tPlus, tM>>)

\* 'A (+ M) <=> B (+ M)', 'A (+M) <=> B (+M)',
\* 'A (+ B) <=> C (+ B)', 'A (+B) <=> C (+B)'
EqFalloffM       == Join(<<sA, OpenParen, CloseM, DelimArrowBoth, sB, OpenParen, CloseM>>)
EqFalloffMTight  == Join(<<sA, tOpenM, DelimArrowBoth, sB, tOpenM>>)
EqFalloffB       == Join(<<sA, OpenParen, tCloseB, DelimArrowBoth, sC, OpenParen, tCloseB>>)
EqFalloffBTight  == Join(<<sA, tOpenB, DelimArrowBoth, sC, tOpenB>>)
FalloffEquations == {EqFalloffM, EqFalloffMTight, EqFalloffB, EqFalloffBTight}

\* The efficiencies argument: '' or 'C:2.0'.
EffC == <<"C", ":", "2", ".", "0">>
EfficiencyArgs == {<<>>, EffC}

\* Rate expressions: [5, 0, 0], stick(5, 0, 0) and [(5, 'cm3/mol/s'), 0, 0].
RateNum   == Arrhenius(NumA(5), "")
RateStick == Arrhenius(NumA(5), "stick")
RatePair  == Arrhenius(PairA(5, "cm3/mol/s"), "")
RateLow   == Arrhenius(NumA(7), "")

-----------------------------------------------------------------------------
(* Spec: phases, reactions of every class, write()                         *)

PipelinePhase ==
    \E kind \in {"ideal_gas", "ideal_interface", "edge"}, sp \in SpeciesArgs :
        /\ Len(_phases) < MaxPhases
        /\ DeclarePhase(kind, "p", sp, 1, 0)

PlainReaction ==
    \E eq \in PlainEquations, kf \in {RateNum, RateStick} :
        /\ Len(_reactions) < MaxReactions
        /\ DeclareReaction("reaction", eq, <<kf>>, <<>>, <<>>, <<>>)

InterfaceReaction ==
    \E cls \in {"surface_reaction", "edge_reaction"}, kf \in {RateNum, RateStick} :
        /\ Len(_reactions) < MaxReactions
        /\ DeclareReaction(cls, EqBimolecular, <<kf>>, <<>>, <<>>, <<>>)

ThreeBodyReaction ==
    \E eff \in EfficiencyArgs :
        /\ Len(_reactions) < MaxReactions
        /\ DeclareReaction("three_body_reaction", EqThreeBody, <<RateNum>>, eff, <<>>, <<>>)

FalloffReaction ==
    \E eq \in FalloffEquations, eff \in EfficiencyArgs :
        /\ Len(_reactions) < MaxReactions
        /\ DeclareReaction("falloff_reaction", eq, <<RateNum, RateLow>>, eff, <<>>, <<>>)

Next ==
    \/ PipelinePhase
    \/ PlainReaction
    \/ InterfaceReaction
    \/ ThreeBodyReaction
    \/ FalloffReaction
    \/ Write

Spec == Init /\ [][Next]_vars

-----------------------------------------------------------------------------
(* SpecPhase: phase entries of every class                                 *)

AnyPhase ==
    \E kind \in PhaseClasses, name \in PhaseNames,
       sp \in SpeciesArgs \cup BadSpeciesArgs, density \in {-1, 1} :
        /\ Len(_phases) < MaxPhases
        /\ DeclarePhase(kind, name, sp, density, 0)

NextPhase == AnyPhase

SpecPhase == Init /\ [][NextPhase]_vars

-----------------------------------------------------------------------------
(* SpecUnits: units() directives around gas-phase reactions, write()       *)

UnitsDirective ==
    \E length \in {"", "cm"}, quantity \in {"", "mol", "molec"}, time \in {"", "min"} :
        Units(length, quantity, time)

GasPhase ==
    \E sp \in {sA, Join(<<sA, sB>>)} :
        /\ Len(_phases) < MaxPhases
        /\ DeclarePhase("ideal_gas", "gas", sp, 1, 0)

GasReaction ==
    \E kf \in {RateNum, RateStick, RatePair} :
        /\ Len(_reactions) < MaxReactions
        /\ DeclareReaction("reaction", EqBimolecular, <<kf>>, <<>>, <<>>, <<>>)

GasFalloff ==
    /\ Len(_reactions) < MaxReactions
    /\ DeclareReaction("falloff_reaction", EqFalloffM, <<RateNum, RateLow>>, <<>>, <<>>, <<>>)

NextUnits ==
    \/ UnitsDirective
    \/ GasPhase
    \/ GasReaction
    \/ GasFalloff
    \/ Write

SpecUnits == Init /\ [][NextUnits]_vars

-----------------------------------------------------------------------------
(* SpecIds: reaction entries with and without an id, after a run of        *)
(* earlier reaction entries, write()                                       *)

MaxIdEntries == 2

\* 'A => B'
EqUnimolecular == Join(<<sA, DelimArrow, sB>>)

\* The id argument: '' or 'rx'.
IdArgs == {<<>>, <<"r", "x">>}

\* The numbers of reaction entries 'A => B' the input file may hold, after
\* one ideal_gas entry with species 'A', before the entries under study.
EarlierEntries == {0, 8, 98, 998}

\* The object reaction('A => B', [5, 0, 0]) registers.
EarlierReaction ==
    The({ r.reactions[1] :
            r \in DeclareReactionResults(<<>>, "reaction", EqUnimolecular,
                                         <<RateNum>>, <<>>, <<>>, <<>>) })

\* The state after ideal_gas(name = 'gas', species = 'A') and n entries
\* reaction('A => B', [5, 0, 0]).
InitIds ==
    \E n \in EarlierEntries :
        /\ _ulen = "m"
        /\ _umol = "kmol"
        /\ _utime = "s"
        /\ _species = <<>>
        /\ _speciesnames = <<>>
        /\ _phases = DeclarePhaseResult(<<>>, "ideal_gas", "gas", sA, 1, 0).phases
        /\ _reactions = [i \in 1..n |-> [EarlierReaction EXCEPT !._num = i]]
        /\ unitsAtDecl = [i \in 1..n |-> <<"m", "kmol", "s">>]
        /\ entry = IF n = 0
                   THEN [op |-> "phase", kind |-> "ideal_gas", name |-> "gas",
                         species |-> sA, density |-> 1]
                   ELSE [op |-> "reaction", cls |-> "reaction",
                         equation |-> EqUnimolecular, kf |-> <<RateNum>>,
                         efficiencies |-> <<>>]
        /\ diags = <<>>
        /\ status = "declaring"
        /\ exc = NoExc
        /\ doc = <<>>

IdReaction ==
    \E id \in IdArgs :
        /\ \E n \in EarlierEntries : Len(_reactions) - n \in 0..(MaxIdEntries - 1)
        /\ \/ DeclareReaction("reaction", EqUnimolecular, <<RateNum>>, <<>>, id, <<>>)
           \/ DeclareReaction("three_body_reaction", EqThreeBody, <<RateNum>>, <<>>, id, <<>>)

NextIds ==
    \/ IdReaction
    \/ Write

SpecIds == InitIds /\ [][NextIds]_vars

-----------------------------------------------------------------------------
(* SpecSpecies: species entries                                            *)

MaxSpecies == 2

tColon == <<":">>
tComma == <<",">>
eH == <<"H">>
AtomsE1   == eE \o tColon \o <<"1">>
AtomsE2   == eE \o tColon \o <<"2">>
AtomsH1   == eH \o tColon \o <<"1">>
AtomsH1E1 == Join(<<AtomsH1, AtomsE1>>)
AtomsHE2  == AtomsH1 \o tComma \o AtomsE2
AtomsE1E2 == Join(<<AtomsE1, AtomsE2>>)
AtomsNoCount == eE
AtomsBadCount == eE \o tColon \o eH
AtomArgs == {AtomsE1, AtomsE2, AtomsH1, AtomsH1E1, AtomsHE2, AtomsE1E2,
             AtomsNoCount, AtomsBadCount, <<>>}
ChargeArgs == {NoCharge, -2, -1, 0, 1}
SpeciesNameArgs == {sA, sB}

AnySpecies ==
    \E name \in SpeciesNameArgs, atoms \in AtomArgs, charge \in ChargeArgs :
        /\ Len(_species) < MaxSpecies
        /\ DeclareSpecies(name, atoms, charge)

NextSpecies == AnySpecies

SpecSpecies == Init /\ [][NextSpecies]_vars

-----------------------------------------------------------------------------
(* SpecSides: reactions whose sides repeat species and carry coefficients  *)

MaxSideEntries == 1

t2 == <<"2">>
t3 == <<"3">>
SideArgs ==
    { sA,
      Join(<<t2, sA>>),
      Join(<<sA, tPlus, sA>>),
      Join(<<t2, sA, tPlus, t3, sA>>),
      Join(<<sA, tPlus, t2, sB, tPlus, t3, sA>>),
      Join(<<t2, t3, sA>>),
      Join(<<sA, tPlus, t2>>),
      Join(<<t2, sA, sB>>),
      Join(<<tNeg2, sA>>),
      Join(<<sA, tPlus, tNeg2, sB>>) }

SidePhase ==
    /\ Len(_phases) < 1
    /\ DeclarePhase("ideal_gas", "gas", Join(<<sA, sB>>), 1, 0)

SideReaction ==
    \E r \in SideArgs, p \in SideArgs :
        /\ Len(_reactions) < MaxSideEntries
        /\ DeclareReaction("reaction", Join(<<r, DelimArrow, p>>), <<RateNum>>,
                           <<>>, <<>>, <<>>)

NextSides == SidePhase \/ SideReaction \/ Write

SpecSides == Init /\ [][NextSides]_vars

-----------------------------------------------------------------------------
(* SpecDelims: equations with each delimiter, alone and mixed              *)

MaxDelimEntries == 2

DelimEquations ==
    { Join(<<sA, DelimArrowBoth, sB>>),
      Join(<<sA, DelimArrow, sB>>),
      Join(<<sA, DelimEq, sB>>),
      sA \o DelimEq \o sB,
      sA \o DelimArrow \o sB,
      Join(<<sA, DelimArrowBoth, sB, DelimArrow, sC>>),
      Join(<<sA, DelimEq, sB, DelimArrowBoth, sC>>),
      Join(<<sA, DelimArrow, sB, DelimEq, sC>>),
      Join(<<sA, DelimEq, sB, DelimEq, sC>>) }

DelimPhase ==
    /\ Len(_phases) < 1
    /\ DeclarePhase("ideal_gas", "gas", Join(<<sA, sB, sC>>), 1, 0)

DelimReaction ==
    \E e \in DelimEquations :
        /\ Len(_reactions) < MaxDelimEntries
        /\ DeclareReaction("reaction", e, <<RateNum>>, <<>>, <<>>, <<>>)

NextDelims == DelimPhase \/ DelimReaction \/ Write

SpecDelims == Init /\ [][NextDelims]_vars

-----------------------------------------------------------------------------
(* SpecConc: one phase of each class under an elementary reaction          *)

MaxConcPhases == 2
BaseDims == {1, 2, 3}

ClassPhase ==
    \E kind \in PhaseClasses, sp \in {sA, sB} :
        /\ Len(_phases) < MaxConcPhases
        /\ DeclarePhase(kind, "p", sp, 1, 0)

BasePhase ==
    \E dim \in BaseDims, sp \in {sA, sB} :
        /\ Len(_phases) < MaxConcPhases
        /\ DeclareBasePhase("p", dim, sp)

LatticePhase ==
    \E sp \in {sA, sB}, site_density \in {-1, 1} :
        /\ Len(_phases) < MaxConcPhases
        /\ DeclareLattice("l", sp, site_density)

LatticeSolidPhase ==
    \E i \in 1..Len(_phases) :
        /\ Len(_phases) < MaxConcPhases + 1
        /\ _phases[i].kind = "lattice"
        /\ DeclareLatticeSolid("p", <<_phases[i]>>)

ConcReaction ==
    /\ Len(_reactions) < 1
    /\ DeclareReaction("reaction", EqUnimolecular, <<RateNum>>, <<>>, <<>>, <<>>)

NextConc ==
    ClassPhase \/ BasePhase \/ LatticePhase \/ LatticeSolidPhase
        \/ ConcReaction \/ Write

SpecConc == Init /\ [][NextConc]_vars

-----------------------------------------------------------------------------
(* SpecThird: three-body reactions over a gas that may declare M itself    *)

MaxThirdEntries == 2

tLowM == <<"m">>
sMg == <<"M", "g">>
ThirdEquations ==
    { Join(<<sA, tPlus, tM, DelimArrowBoth, sB, tPlus, tM>>),
      Join(<<sA, tPlus, tLowM, DelimArrowBoth, sB, tPlus, tLowM>>),
      Join(<<sA, tPlus, sMg, tPlus, tM, DelimArrowBoth, sB>>),
      Join(<<t2, sA, tPlus, tM, DelimArrow, sB>>) }

ThirdPhase ==
    \E sp \in {Join(<<sA, sB, sMg>>), Join(<<sA, sB, sMg, tM, tLowM>>)} :
        /\ Len(_phases) < 1
        /\ DeclarePhase("ideal_gas", "gas", sp, 1, 0)

ThirdReaction ==
    \E e \in ThirdEquations, eff \in EfficiencyArgs :
        /\ Len(_reactions) < MaxThirdEntries
        /\ DeclareReaction("three_body_reaction", e, <<RateNum>>, eff, <<>>, <<>>)

\* A units() directive at the head of the input file.
ThirdUnits ==
    \E quantity \in {"", "mol"} :
        /\ entry.op = "none"
        /\ Units("cm", quantity, "")

NextThird == ThirdUnits \/ ThirdPhase \/ ThirdReaction \/ Write

SpecThird == Init /\ [][NextThird]_vars

-----------------------------------------------------------------------------
(* SpecOrder: reactions of each plain class with an order argument         *)

MaxOrderPhases == 2
MaxOrderEntries == 1

EqOrder == Join(<<sA, tPlus, t2, sB, DelimArrow, sC>>)
OrderArgs == {<<>>, sA \o tColon \o t3, sC \o tColon \o t2}

OrderPhase ==
    \E kind \in {"ideal_gas", "ideal_interface", "edge"}, sp \in {sA, sB} :
        /\ Len(_phases) < MaxOrderPhases
        /\ DeclarePhase(kind, "p", sp, 1, 0)

OrderReaction ==
    \E cls \in {"reaction", "surface_reaction", "edge_reaction"},
       order \in OrderArgs :
        /\ Len(_reactions) < MaxOrderEntries
        /\ DeclareReaction(cls, EqOrder, <<RateNum>>, <<>>, <<>>, order)

NextOrder == OrderPhase \/ OrderReaction \/ Write

SpecOrder == Init /\ [][NextOrder]_vars

-----------------------------------------------------------------------------
(* SpecLate: reactions declared before any phase                           *)

MaxLatePhases == 2

LateReaction ==
    \E eq \in {EqUnimolecular, EqBimolecular} :
        /\ Len(_phases) = 0
        /\ Len(_reactions) < 1
        /\ DeclareReaction("reaction", eq, <<RateNum>>, <<>>, <<>>, <<>>)

LatePhase ==
    \E kind \in {"ideal_gas", "ideal_interface", "edge"},
       sp \in {sA, Join(<<sA, sB>>)} :
        /\ Len(_reactions) = 1
        /\ Len(_phases) < MaxLatePhases
        /\ DeclarePhase(kind, "p", sp, 1, 0)

NextLate == LateReaction \/ LatePhase \/ Write

SpecLate == Init /\ [][NextLate]_vars

-----------------------------------------------------------------------------
(* SpecSite: pre-exponentials given per site                               *)

MaxSitePhases == 2

\* The rate expression [(5, '/site'), 0, 0].
RateSite == Arrhenius(PairA(5, SitePerUnit), "")

SitePhase ==
    \E kind \in {"ideal_gas", "ideal_interface"}, sp \in {sA, sB},
       site_density \in {0, 2} :
        /\ Len(_phases) < MaxSitePhases
        /\ kind = "ideal_gas" => site_density = 0
        /\ DeclarePhase(kind, "p", sp, 1, site_density)

SiteReaction ==
    \E cls \in {"reaction", "surface_reaction"},
       eq \in {EqUnimolecular, EqBimolecular} :
        /\ Len(_reactions) < 1
        /\ DeclareReaction(cls, eq, <<RateSite>>, <<>>, <<>>, <<>>)

NextSite == SitePhase \/ SiteReaction \/ Write

SpecSite == Init /\ [][NextSite]_vars

-----------------------------------------------------------------------------
(* SpecPre: the forms of the pre-exponential under changed unit defaults   *)

MaxPreEntries == 1

EqDimer == Join(<<t2, sA, DelimArrow, sB>>)

PreUnits ==
    \E length \in {"", "cm"}, quantity \in {"", "mol"} :
        Units(length, quantity, "")

PrePhase ==
    /\ Len(_phases) < 1
    /\ DeclarePhase("ideal_gas", "gas", Join(<<sA, sB>>), 1, 0)

PreReaction ==
    \E eq \in {EqDimer, EqBimolecular}, kf \in {RateNum, RateStick, RatePair} :
        /\ Len(_reactions) < MaxPreEntries
        /\ DeclareReaction("reaction", eq, <<kf>>, <<>>, <<>>, <<>>)

NextPre == PreUnits \/ PrePhase \/ PreReaction \/ Write

SpecPre == Init /\ [][NextPre]_vars

-----------------------------------------------------------------------------
(* SpecPlog: reactions with more than one rate expression                  *)

MaxPlogEntries == 1

PlogArgs == {<<PlogArg(1, NumA(5)), PlogArg(10, NumA(7))>>,
             <<PlogArg(1, NumA(5)), PlogArg(10, NumA(7)), PlogArg(100, NumA(5))>>,
             <<PlogArg(1, NumA(5))>>}

PlogUnits ==
    \E length \in {"", "cm"}, quantity \in {"", "mol"} :
        Units(length, quantity, "")

PlogPhase ==
    /\ Len(_phases) < 1
    /\ DeclarePhase("ideal_gas", "gas", Join(<<sA, sB>>), 1, 0)

PlogReaction ==
    \E eq \in {EqDimer, EqBimolecular}, args \in PlogArgs :
        /\ Len(_reactions) < MaxPlogEntries
        /\ DeclareReaction("pdep_arrhenius", eq, args, <<>>, <<>>, <<>>)

PlogFalloff ==
    /\ Len(_reactions) < MaxPlogEntries
    /\ DeclareReaction("falloff_reaction", EqFalloffM, <<RateNum, RateLow>>, <<>>, <<>>, <<>>)

NextPlog == PlogUnits \/ PlogPhase \/ PlogReaction \/ PlogFalloff \/ Write

SpecPlog == Init /\ [][NextPlog]_vars

-----------------------------------------------------------------------------
(* SpecTwice: a document written twice                                     *)

MaxTwiceEntries == 2

TwiceUnits ==
    \E length \in {"", "cm"} : Units(length, "", "")

TwicePhase ==
    \E kind \in {"ideal_gas", "ideal_interface"} :
        /\ Len(_phases) < 1
        /\ DeclarePhase(kind, "p", Join(<<sA, sB>>), 1, 2)

TwiceReaction ==
    \E cls \in {"reaction", "surface_reaction"}, kf \in {RateNum, RatePair} :
        /\ Len(_reactions) < MaxTwiceEntries
        /\ DeclareReaction(cls, EqBimolecular, <<kf>>, <<>>, <<>>, <<>>)

TwicePlog ==
    \E args \in PlogArgs :
        /\ Len(_reactions) < MaxTwiceEntries
        /\ DeclareReaction("pdep_arrhenius", EqBimolecular, args, <<>>, <<>>, <<>>)

TwiceFalloff ==
    /\ Len(_reactions) < MaxTwiceEntries
    /\ DeclareReaction("falloff_reaction", EqFalloffM, <<RateNum, RateLow>>, <<>>, <<>>, <<>>)

NextTwice ==
    \/ TwiceUnits
    \/ TwicePhase
    \/ TwiceReaction
    \/ TwicePlog
    \/ TwiceFalloff
    \/ Write
    \/ WriteAgain

SpecTwice == Init /\ [][NextTwice]_vars

-----------------------------------------------------------------------------
(* Properties.  Vocabulary shared by the statements below.                 *)

\* The run has been through write().
Finished == status \in {"written", "write_aborted"}

\* The last entry executed is a reaction entry of class cls.
LastEntryIs(cls) == entry.op = "reaction" /\ entry.cls = cls

\* Token t spells a negative number.
NegativeNumeral(t) == IsFloat(t) /\ FloatVal(t) < 0

\* The blank-separated tokens of the equation e.
EquationTokens(e) == {Words(e)[i] : i \in 1..Len(Words(e))}

\* The phase reactant s resolves to (0: none), and the phases of dimension
\* dim that the reactants of rx resolve to.
PhaseOf(s) == FirstPhaseWith(_phases, s)

TouchedPhases(rx, dim) ==
    {PhaseOf(s) : s \in DOMAIN rx._r}
        \cap {i \in 1..Len(_phases) : _phases[i]._dim = dim}

AllResolved(rx) == \A s \in DOMAIN rx._r : PhaseOf(s) # 0

\* No key of the dict d carries a parenthesis of a third-body marker.
NoThirdBodyToken(d) ==
    \A k \in DOMAIN d : \A c \in 1..Len(k) : k[c] \notin {"(", ")"}

\* length_scale^l * quantity_scale^q * time_scale^t for the unit defaults
\* now in force, in the exponent form of unit_factor.
ScalePowers(l, q, t) ==
    [e10  |-> l * LengthE10(_ulen) + q * MolesE10(_umol),
     eAvo |-> q * MolesEAvo(_umol),
     e60  |-> t * TimeE60(_utime)]

\* Rate record n holds a bare pre-exponential that was scaled by a unit
\* factor (a sticking rate names its gas species and is scaled by 1.0).
BareScaled(n) == n.A.form = "scaled" /\ n.species = <<>>

SurfaceErr == CTIError("A surface reaction may contain at most one surface phase")
EdgeErr    == CTIError("An edge reaction may contain at most one edge phase")

-----------------------------------------------------------------------------
(* C1 *)

\* C1: whenever a CTI_Error diagnostic has been produced, the run has been
\* aborted at that construct and no document is written.
C1_DiagnosticAborts ==
    diags # <<>> =>
        /\ status \in {"aborted", "write_aborted"}
        /\ doc = <<>>

-----------------------------------------------------------------------------
(* C2 *)

\* C2: a reaction entry whose equation holds a negative numeric token ends
\* the run with the CTI_Error "negative stoichiometric coefficient", and no
\* registered reaction has a map with a negative numeral as a key.
C2_NegativeTokenRaises ==
    /\ (entry.op = "reaction"
          /\ \E t \in EquationTokens(entry.equation) : NegativeNumeral(t))
         => (status = "aborted" /\ exc = CTIError(NegativeCoeffMsg))
    /\ \A i \in 1..Len(_reactions) :
          \A k \in DOMAIN _reactions[i]._r \cup DOMAIN _reactions[i]._p :
              ~NegativeNumeral(k)

-----------------------------------------------------------------------------
(* C3 *)

\* C3: a phase entry of a pure kind (stoichiometric_solid,
\* stoichiometric_liquid, liquid_vapor, redlich_kwong) that names two or
\* more species is fatal, and no registered phase of a pure kind holds more
\* than one species.
C3_PurePhaseOneSpecies ==
    /\ (entry.op = "phase" /\ PureAttr(entry.kind)
          /\ SpeciesMap(entry.species).dup = <<>>
          /\ Cardinality(SpeciesMap(entry.species).spmap) >= 2)
         => (status = "aborted" /\ exc.type = "CTI_Error")
    /\ \A i \in 1..Len(_phases) :
          PureAttr(_phases[i].kind) => Cardinality(_phases[i]._spmap) = 1

-----------------------------------------------------------------------------
(* C4 *)

\* An untyped reaction with two distinct reactants of coefficient 1, both
\* resolved to a 3-D ideal-gas phase.
ElementaryBimolecularGas(rx) ==
    /\ rx._type = ""
    /\ Cardinality(DOMAIN rx._r) = 2
    /\ \A s \in DOMAIN rx._r :
          /\ rx._r[s] = 1
          /\ rx._rxnorder[s] = 1
          /\ PhaseOf(s) # 0
          /\ _phases[PhaseOf(s)]._dim = 3
          /\ is_ideal_gas(_phases[PhaseOf(s)])

\* C4 (as the code has it): once the document is written, an elementary
\* bimolecular gas reaction has mdim = 1 and ldim = -3, and every bare
\* pre-exponential of it was multiplied by
\* length_scale^3 * quantity_scale^-1 / time_scale.
C4_BimolecularGasDims ==
    status = "written" =>
        \A i \in 1..Len(_reactions) :
            ElementaryBimolecularGas(_reactions[i]) =>
                /\ _reactions[i].mdim = 1
                /\ _reactions[i].ldim = -3
                /\ \A j \in 1..Len(doc[i].rateCoeff) :
                      BareScaled(doc[i].rateCoeff[j]) =>
                          doc[i].rateCoeff[j].A.factor = ScalePowers(3, -1, -1)

\* C4 as stated: mdim = 1, ldim = 3 and the factor
\* length_scale^-3 * quantity_scale^-1 / time_scale.
C4_AsStated ==
    status = "written" =>
        \A i \in 1..Len(_reactions) :
            ElementaryBimolecularGas(_reactions[i]) =>
                /\ _reactions[i].mdim = 1
                /\ _reactions[i].ldim = 3
                /\ \A j \in 1..Len(doc[i].rateCoeff) :
                      BareScaled(doc[i].rateCoeff[j]) =>
                          doc[i].rateCoeff[j].A.factor = ScalePowers(-3, -1, -1)

\* A document was written, under cm / mol / min, that holds an elementary
\* bimolecular gas reaction with a bare pre-exponential.
C4_Witness ==
    /\ status = "written"
    /\ _ulen = "cm" /\ _umol = "mol" /\ _utime = "min"
    /\ \E i \in 1..Len(_reactions) :
          /\ ElementaryBimolecularGas(_reactions[i])
          /\ BareScaled(doc[i].rateCoeff[1])

-----------------------------------------------------------------------------
(* C5 *)

\* The equation names the generic third body on both sides, written as the
\* two tokens '(+' and 'M)', or as the single token '(+M)'.
GenericSpaced(e) ==
    /\ FindDelim(e) # <<>>
    /\ Len(Sides(e, FindDelim(e))) = 2
    /\ \A n \in 1..2 : {OpenParen, CloseM} \subseteq EquationTokens(Sides(e, FindDelim(e))[n])

GenericTight(e) ==
    /\ FindDelim(e) # <<>>
    /\ Len(Sides(e, FindDelim(e))) = 2
    /\ \A n \in 1..2 : tOpenM \in EquationTokens(Sides(e, FindDelim(e))[n])

\* C5 (as the code has it): a falloff entry whose equation spells the
\* generic third body '(+ M)', with a blank, is accepted and leaves no
\* third-body token in the reactant and product maps; spelled '(+M)' the
\* entry ends the run with a KeyError.  In the written document the
\* reaction has an efficiency table exactly when the entry gave a non-empty
\* efficiencies argument, and the table's default is then 1.0.
C5_GenericThirdBody ==
    /\ (LastEntryIs("falloff_reaction") /\ GenericSpaced(entry.equation)) =>
          /\ status = "declaring"
          /\ exc = NoExc
          /\ _reactions[Len(_reactions)]._e = entry.equation
          /\ NoThirdBodyToken(_reactions[Len(_reactions)]._r)
          /\ NoThirdBodyToken(_reactions[Len(_reactions)]._p)
    /\ (LastEntryIs("falloff_reaction") /\ GenericTight(entry.equation)) =>
          /\ status = "aborted"
          /\ exc.type = "KeyError"
    /\ status = "written" =>
          \A i \in 1..Len(_reactions) :
              (_reactions[i]._type = "falloff" /\ GenericSpaced(_reactions[i]._e)) =>
                  /\ doc[i].hasEfficiencies <=> _reactions[i]._eff # <<>>
                  /\ doc[i].hasEfficiencies =>
                        /\ doc[i].effDefault = 1
                        /\ doc[i].efficiencies = _reactions[i]._eff

\* C5 as stated: the spelling '(+M)' is accepted with the tokens removed,
\* and the written reaction always has an efficiency table of default 1.0.
C5_AsStated ==
    /\ (LastEntryIs("falloff_reaction") /\ GenericTight(entry.equation)) =>
          /\ status = "declaring"
          /\ NoThirdBodyToken(_reactions[Len(_reactions)]._r)
          /\ NoThirdBodyToken(_reactions[Len(_reactions)]._p)
    /\ status = "written" =>
          \A i \in 1..Len(_reactions) :
              (_reactions[i]._type = "falloff"
                 /\ (GenericSpaced(_reactions[i]._e) \/ GenericTight(_reactions[i]._e))) =>
                  /\ doc[i].hasEfficiencies
                  /\ doc[i].effDefault = 1

\* A document was written that holds a falloff reaction with the generic
\* third body and an efficiency table of default 1.0.
C5_Witness ==
    /\ status = "written"
    /\ \E i \in 1..Len(_reactions) :
          /\ _reactions[i]._type = "falloff"
          /\ GenericSpaced(_reactions[i]._e)
          /\ NoThirdBodyToken(_reactions[i]._r)
          /\ doc[i].hasEfficiencies
          /\ doc[i].effDefault = 1

-----------------------------------------------------------------------------
(* C6 *)

\* The third bodies the equation e names on side n: the tokens '<name>)'
\* other than 'M)' and 'm)' (spelling '(+ <name>)'), and the tokens
\* '(+<name>)' (spelling without the blank).
NamedSpacedTokens(e, n) ==
    {k \in EquationTokens(Sides(e, FindDelim(e))[n]) :
        IsNamedThirdBody(k) /\ k \notin {CloseM, CloseLowM}}

NamedTightTokens(e, n) ==
    {k \in EquationTokens(Sides(e, FindDelim(e))[n]) :
        /\ Len(k) > 3
        /\ SubSeq(k, 1, 2) = OpenParen
        /\ k[Len(k)] = ")"
        /\ k \notin {tOpenM, <<"(", "+", "m", ")">>}}

NamedSpaced(e) ==
    /\ FindDelim(e) # <<>>
    /\ Len(Sides(e, FindDelim(e))) = 2
    /\ \A n \in 1..2 : OpenParen \in EquationTokens(Sides(e, FindDelim(e))[n])
    /\ Cardinality(NamedSpacedTokens(e, 1)) = 1
    /\ NamedSpacedTokens(e, 2) = NamedSpacedTokens(e, 1)

NamedTight(e) ==
    /\ FindDelim(e) # <<>>
    /\ Len(Sides(e, FindDelim(e))) = 2
    /\ Cardinality(NamedTightTokens(e, 1)) = 1
    /\ NamedTightTokens(e, 2) = NamedTightTokens(e, 1)

\* The efficiency table '<name>:1.0' of the third body e names.
NamedTable(e) ==
    The({ SubSeq(k, 1, Len(k) - 1) \o OneEff : k \in NamedSpacedTokens(e, 1) })

\* C6 (as the code has it): a falloff entry that names its third body as
\* '(+ <name>)', with a blank, and gives no efficiencies argument is
\* accepted, leaves no third-body token in the reactant and product maps
\* and sets the table '<name>:1.0' with default 0.0; the written reaction
\* carries that table with default 0.0.  Spelled '(+<name>)' the entry ends
\* the run with a KeyError.
C6_NamedThirdBody ==
    /\ (LastEntryIs("falloff_reaction") /\ NamedSpaced(entry.equation)
          /\ entry.efficiencies = <<>>) =>
          /\ status = "declaring"
          /\ exc = NoExc
          /\ NoThirdBodyToken(_reactions[Len(_reactions)]._r)
          /\ NoThirdBodyToken(_reactions[Len(_reactions)]._p)
          /\ _reactions[Len(_reactions)]._eff = NamedTable(entry.equation)
          /\ _reactions[Len(_reactions)]._effm = 0
    /\ (LastEntryIs("falloff_reaction") /\ NamedTight(entry.equation)) =>
          /\ status = "aborted"
          /\ exc.type = "KeyError"
    /\ status = "written" =>
          \A i \in 1..Len(_reactions) :
              (_reactions[i]._type = "falloff" /\ NamedSpaced(_reactions[i]._e)) =>
                  /\ doc[i].hasEfficiencies
                  /\ doc[i].efficiencies = NamedTable(_reactions[i]._e)
                  /\ doc[i].effDefault = 0

\* C6 as stated: the same for either spelling of the named third body,
\* '(+<name>)' included.
C6_AsStated ==
    (LastEntryIs("falloff_reaction") /\ entry.efficiencies = <<>>
       /\ (NamedSpaced(entry.equation) \/ NamedTight(entry.equation))) =>
        /\ status = "declaring"
        /\ NoThirdBodyToken(_reactions[Len(_reactions)]._r)
        /\ NoThirdBodyToken(_reactions[Len(_reactions)]._p)
        /\ _reactions[Len(_reactions)]._effm = 0

\* A document was written that holds a falloff reaction with a named third
\* body, whose efficiency table is that species alone with default 0.0.
C6_Witness ==
    /\ status = "written"
    /\ \E i \in 1..Len(_reactions) :
          /\ _reactions[i]._type = "falloff"
          /\ NamedSpaced(_reactions[i]._e)
          /\ doc[i].hasEfficiencies
          /\ doc[i].efficiencies = NamedTable(_reactions[i]._e)
          /\ doc[i].effDefault = 0

-----------------------------------------------------------------------------
(* C7 *)

\* C7: a reaction entry whose equation holds none of '<=>', '=>', '=' ends
\* the run at the entry, and no registered reaction has such an equation.
C7_NoDelimiterFatal ==
    /\ (entry.op = "reaction" /\ FindDelim(entry.equation) = <<>>) =>
          status = "aborted"
    /\ \A i \in 1..Len(_reactions) : FindDelim(_reactions[i]._e) # <<>>

-----------------------------------------------------------------------------
(* C8 *)

\* C8: the names of the registered phases are pairwise distinct, and a
\* phase entry never leaves a second phase of the same name registered.
C8_PhaseNamesUnique ==
    \A i, j \in 1..Len(_phases) :
        i # j => _phases[i]._name # _phases[j]._name

-----------------------------------------------------------------------------
(* C9 *)

\* The number of shifts (mdim + 1, ldim - 3) that reaction rx went through
\* after its rate expression number j of n was built: a falloff reaction
\* shifts once after each rate expression.
ShiftsAfter(rx, j, n) == IF rx._type = "falloff" THEN n - j + 1 ELSE 0

\* The unit factor of reaction rx's rate expression j of n under the unit
\* defaults u = <<length, quantity, time>>.
FactorUnder(u, rx, j, n) ==
    unit_factor(u[1], u[2], u[3],
                rx.mdim - ShiftsAfter(rx, j, n),
                rx.ldim + 3 * ShiftsAfter(rx, j, n))

\* C9: in the written document every bare pre-exponential was multiplied by
\* the unit factor of the length, quantity and time defaults in force at
\* write(), whatever the defaults were when the reaction was declared.
C9_UnitsAtEmission ==
    status = "written" =>
        \A i \in 1..Len(_reactions) :
            \A j \in 1..Len(doc[i].rateCoeff) :
                BareScaled(doc[i].rateCoeff[j]) =>
                    doc[i].rateCoeff[j].A.factor =
                        FactorUnder(<<_ulen, _umol, _utime>>, _reactions[i],
                                    j, Len(doc[i].rateCoeff))

\* A document was written in which a bare pre-exponential carries a factor
\* other than the one of the defaults in force when its reaction was
\* declared: a units() directive after the declaration changed it.
C9_Witness ==
    /\ status = "written"
    /\ \E i \in 1..Len(_reactions) :
          /\ unitsAtDecl[i] # <<_ulen, _umol, _utime>>
          /\ BareScaled(doc[i].rateCoeff[1])
          /\ doc[i].rateCoeff[1].A.factor
                # FactorUnder(unitsAtDecl[i], _reactions[i], 1, Len(doc[i].rateCoeff))

-----------------------------------------------------------------------------
(* C10 *)

\* Reaction rx came through the species loop and has its attribute rev.
ReachesPhaseCheck(rx) == AllResolved(rx) /\ rx.rev # "unset"

\* C10: after write(), a surface reaction whose reactants resolve to more
\* than one 2-D phase, or an edge reaction whose reactants resolve to more
\* than one 1-D phase, has kept the document from being written, and the
\* first reaction of the registry, if it is such a reaction, has ended the
\* run with the error about the phase count.  The error is raised for no
\* other reason than a second phase of that dimension or a phase of a lower
\* dimension: a phase counts once however many reactants it holds.
C10_OneSurfaceOrEdgePhase ==
    Finished =>
        /\ \A i \in 1..Len(_reactions) :
              (/\ ReachesPhaseCheck(_reactions[i])
               /\ _reactions[i]._type = "surface"
               /\ Cardinality(TouchedPhases(_reactions[i], 2)) > 1) =>
                  /\ status = "write_aborted"
                  /\ i = 1 => exc = SurfaceErr
        /\ \A i \in 1..Len(_reactions) :
              (/\ ReachesPhaseCheck(_reactions[i])
               /\ _reactions[i]._type = "edge"
               /\ Cardinality(TouchedPhases(_reactions[i], 1)) > 1) =>
                  /\ status = "write_aborted"
                  /\ i = 1 => exc = EdgeErr
        /\ exc = SurfaceErr =>
              \E i \in 1..Len(_reactions) :
                  /\ _reactions[i]._type = "surface"
                  /\ \/ Cardinality(TouchedPhases(_reactions[i], 2)) > 1
                     \/ TouchedPhases(_reactions[i], 1) # {}
                     \/ TouchedPhases(_reactions[i], 0) # {}
        /\ exc = EdgeErr =>
              \E i \in 1..Len(_reactions) :
                  /\ _reactions[i]._type = "edge"
                  /\ \/ Cardinality(TouchedPhases(_reactions[i], 1)) > 1
                     \/ TouchedPhases(_reactions[i], 0) # {}

\* write() was ended by the error about the phase count of a surface
\* reaction whose two reactants lie in two surface phases.
C10_Witness ==
    /\ status = "write_aborted"
    /\ exc = SurfaceErr
    /\ \E i \in 1..Len(_reactions) :
          /\ _reactions[i]._type = "surface"
          /\ Cardinality(DOMAIN _reactions[i]._r) = 2
          /\ Cardinality(TouchedPhases(_reactions[i], 2)) = 2

-----------------------------------------------------------------------------
(* C11 *)

StickErr == CTIError("Sticking probabilities can only be used for reactions with one gas-phase reactant")

\* The reactant species of rx that resolve to a phase of class ideal_gas.
GasReactants(rx) ==
    {s \in DOMAIN rx._r : PhaseOf(s) # 0 /\ _phases[PhaseOf(s)].kind = "ideal_gas"}

\* Reaction rx has a rate expression of type 'stick'.
HasStick(rx) == \E j \in 1..Len(rx._kf) : rx._kf[j].type = "stick"

\* C11: after write(), a written reaction with a sticking rate has exactly
\* one gas-phase reactant, and its sticking rate record names that species;
\* the first reaction of the registry, if it has a sticking rate and a
\* number of gas-phase reactants other than one, has ended the run; and
\* the sticking error is raised only for a reaction with a sticking rate
\* whose number of gas-phase reactants is not one.
C11_StickOneGasReactant ==
    Finished =>
        /\ status = "written" =>
              \A i \in 1..Len(_reactions) :
                  \A j \in 1..Len(_reactions[i]._kf) :
                      _reactions[i]._kf[j].type = "stick" =>
                          /\ Cardinality(GasReactants(_reactions[i])) = 1
                          /\ GasReactants(_reactions[i]) = {doc[i].rateCoeff[j].species}
        /\ (/\ Len(_reactions) >= 1
            /\ HasStick(_reactions[1])
            /\ ReachesPhaseCheck(_reactions[1])
            /\ Cardinality(GasReactants(_reactions[1])) # 1) =>
              /\ status = "write_aborted"
              /\ exc \in {StickErr, SurfaceErr, EdgeErr}
        /\ exc = StickErr =>
              \E i \in 1..Len(_reactions) :
                  /\ HasStick(_reactions[i])
                  /\ Cardinality(GasReactants(_reactions[i])) # 1

\* A document was written that holds a reaction with a sticking rate, one
\* reactant in a gas phase and another in a phase that is no gas.
C11_Witness ==
    /\ status = "written"
    /\ \E i \in 1..Len(_reactions) :
          /\ HasStick(_reactions[i])
          /\ Cardinality(DOMAIN _reactions[i]._r) = 2
          /\ Cardinality(GasReactants(_reactions[i])) = 1
          /\ {doc[i].rateCoeff[1].species} = GasReactants(_reactions[i])

-----------------------------------------------------------------------------
(* C12 *)

\* The decimal string of k, 1 <= k <= 9999, left-padded with zeros to four
\* digits.
FourDigits(k) ==
    <<DigitChar(k \div 1000), DigitChar((k \div 100) % 10),
      DigitChar((k \div 10) % 10), DigitChar(k % 10)>>

\* C12: in the written document the reaction registered k-th carries its
\* explicit id when it has one, and otherwise the decimal string of k
\* padded with zeros to four digits; every registered reaction, of any
\* class and with or without an id, takes the next number.
C12_ReactionIds ==
    /\ \A k \in 1..Len(_reactions) : _reactions[k]._num = k
    /\ status = "written" =>
          \A k \in 1..Len(_reactions) :
              doc[k].id = IF _reactions[k]._id # <<>>
                          THEN _reactions[k]._id
                          ELSE FourDigits(k)

\* A document was written whose 1000th reaction has no explicit id and
\* follows a reaction with an explicit id.
C12_Witness ==
    /\ status = "written"
    /\ Len(_reactions) = 1000
    /\ _reactions[999]._id # <<>>
    /\ _reactions[1000]._id = <<>>
    /\ doc[1000].id = <<"1", "0", "0", "0">>
    /\ doc[998].id = <<"0", "9", "9", "8">>

-----------------------------------------------------------------------------
(* Species declarations                                                    *)

ChargeErr == CTIError("specified charge inconsistent with number of electrons")

\* The species entry just executed had a composition that parses and
\* holds the element E.
ElectronEntry(e) ==
    /\ e.op = "species"
    /\ AtomsExc(AtomList(e.atoms)) = NoExc
    /\ eE \in DOMAIN getAtomicComp(AtomList(e.atoms))

\* The count of E in the composition of a species entry.
ElectronCount(e) == getAtomicComp(AtomList(e.atoms))[eE]

\* C13: for a species entry whose composition holds E with count n: with
\* no charge given the object is created with charge -n; with a charge
\* equal to -n no charge error is raised and the object keeps that charge;
\* with any other charge the entry is fatal with the charge error and both
\* species registries are left as they were.
C13_ElectronCharge ==
    [][ElectronEntry(entry') =>
          IF entry'.charge = NoCharge \/ entry'.charge = -ElectronCount(entry')
          THEN /\ exc' # ChargeErr
               /\ Len(_species') = Len(_species) + 1
               /\ _species'[Len(_species')]._charge = -ElectronCount(entry')
          ELSE /\ status' = "aborted"
               /\ exc' = ChargeErr
               /\ _species' = _species
               /\ _speciesnames' = _speciesnames]_vars

\* A species with one electron was registered with charge -1, and the next
\* entry, with two electrons and charge +1, was refused.
C13_Witness ==
    /\ ElectronEntry(entry)
    /\ ElectronCount(entry) = 2
    /\ entry.charge = 1
    /\ exc = ChargeErr
    /\ status = "aborted"
    /\ Len(_species) = 1
    /\ eE \in DOMAIN _species[1]._atoms
    /\ _species[1]._atoms[eE] = 1
    /\ _species[1]._charge = -1

MultiplyErr == CTIError(MultiplyDefinedMsg)

\* The name of a species entry is already in the species-name registry.
Redeclared(e, names) ==
    /\ e.op = "species"
    /\ \E i \in 1..Len(names) : names[i] = e.name

\* C14: a species entry whose name is already registered is fatal: it ends
\* with the "multiply defined" error unless its composition or its charge
\* was refused first; and the species-name registry never holds a name
\* twice.
C14_SpeciesNamesUnique ==
    /\ [](\A i, j \in 1..Len(_speciesnames) :
            _speciesnames[i] = _speciesnames[j] => i = j)
    /\ [][Redeclared(entry', _speciesnames) =>
            /\ status' = "aborted"
            /\ _speciesnames' = _speciesnames
            /\ \/ exc' = MultiplyErr
               \/ exc' = ChargeErr
               \/ exc' = AtomsExc(AtomList(entry'.atoms))]_vars

\* A second entry under a registered name was refused as multiply defined.
C14_Witness ==
    /\ Redeclared(entry, _speciesnames)
    /\ status = "aborted"
    /\ exc = MultiplyErr
    /\ Len(_speciesnames) = 1
    /\ Len(_species) = 2

-----------------------------------------------------------------------------
(* The sides of an equation                                                *)

\* The tokens of a side once the separators ' + ' are taken out.
SideTokens(s) == Words(StrReplace(s, <<" ", "+", " ">>, <<" ">>))

\* The coefficient in front of token i of a side: the numeral just before
\* it, 1 when the token before it is not a numeral or there is none.
CoeffBefore(toks, i) ==
    IF i > 1 /\ IsFloat(toks[i - 1]) THEN FloatVal(toks[i - 1]) ELSE 1

\* The sum of the coefficients in front of the occurrences of token t among
\* the first i tokens.
RECURSIVE CoeffSum(_, _, _)
CoeffSum(toks, t, i) ==
    IF i = 0 THEN 0
    ELSE (IF toks[i] = t THEN CoeffBefore(toks, i) ELSE 0) + CoeffSum(toks, t, i - 1)

\* The map from each species token (a token that is not a numeral) of the
\* side s to the sum of the coefficients of its occurrences.
SideSums(s) ==
    [t \in {SideTokens(s)[i] : i \in {j \in 1..Len(SideTokens(s)) :
                                         ~IsFloat(SideTokens(s)[j])}} |->
        CoeffSum(SideTokens(s), t, Len(SideTokens(s)))]

\* The reactant and the product side of the entry just executed.
EntrySide(k) == StrSplit(entry.equation, DelimArrow)[k]

\* An elementary reaction was just registered.
SideEntryRegistered ==
    /\ LastEntryIs("reaction")
    /\ status = "declaring"
    /\ Len(_reactions) > 0

\* C15: the reactant and product maps of a registered reaction map each
\* species token of the side to the sum, over its occurrences, of the
\* numeral just before the occurrence (1 when none is there); numerals and
\* the separators ' + ' are no keys.
C15_SideSums ==
    SideEntryRegistered =>
        /\ _reactions[Len(_reactions)]._r = SideSums(EntrySide(1))
        /\ _reactions[Len(_reactions)]._p = SideSums(EntrySide(2))

\* The same for the sides that hold no negative numeral.
SideSumsWithoutNegatives ==
    (/\ SideEntryRegistered
     /\ \A t \in EquationTokens(entry.equation) : ~NegativeNumeral(t)) =>
        /\ _reactions[Len(_reactions)]._r = SideSums(EntrySide(1))
        /\ _reactions[Len(_reactions)]._p = SideSums(EntrySide(2))

\* A side with a repeated species and coefficients was registered with the
\* sums the statement gives.
SideSumsReached ==
    /\ SideEntryRegistered
    /\ SideTokens(EntrySide(1)) = <<sA, t2, sB, t3, sA>>
    /\ _reactions[Len(_reactions)]._r = (sA :> 4) @@ (sB :> 2)

-----------------------------------------------------------------------------
(* Delimiters                                                              *)

\* The delimiters in the order of their priority.
DelimPriority == <<DelimArrowBoth, DelimArrow, DelimEq>>

\* The first delimiter, in that order, that the equation e contains.
SplitsOn(e, k) ==
    /\ Contains(e, DelimPriority[k])
    /\ \A j \in 1..(k - 1) : ~Contains(e, DelimPriority[j])

\* The reaction registered as the k-th was split on the delimiter d: its
\* maps are those of the two parts of the equation around d.
SplitAt(rx, d) ==
    /\ Len(StrSplit(rx._e, d)) = 2
    /\ rx._r = getReactionSpecies(StrSplit(rx._e, d)[1]).d
    /\ rx._p = getReactionSpecies(StrSplit(rx._e, d)[2]).d

\* C16: a registered reaction is split on the first of "<=>", "=>", "=" its
\* equation contains; it is marked reversible when that is "<=>" or "=" and
\* irreversible when it is "=>", and the written record says the same.
C16_DelimiterPriority ==
    \A i \in 1..Len(_reactions) : \A k \in 1..3 :
        SplitsOn(_reactions[i]._e, k) =>
            /\ SplitAt(_reactions[i], DelimPriority[k])
            /\ _reactions[i].rev = (IF k = 2 THEN "no" ELSE "yes")
            /\ status = "written" => doc[i].reversible = _reactions[i].rev

\* Written: a reaction split on "=" as reversible and one split on "=>"
\* as irreversible.
C16_Witness ==
    /\ status = "written"
    /\ Len(_reactions) = 2
    /\ SplitsOn(_reactions[1]._e, 3)
    /\ doc[1].reversible = "yes"
    /\ SplitsOn(_reactions[2]._e, 2)
    /\ doc[2].reversible = "no"

\* An equation holding "<=>" before "=>" was split on "<=>", and one holding
\* "=" before "<=>" too.
MixedDelimitersReached ==
    /\ Len(_reactions) = 2
    /\ _reactions[1]._e = Join(<<sA, DelimArrowBoth, sB, DelimArrow, sC>>)
    /\ _reactions[1].rev = "yes"
    /\ _reactions[2]._e = Join(<<sA, DelimEq, sB, DelimArrowBoth, sC>>)
    /\ _reactions[2].rev = "yes"
    /\ DOMAIN _reactions[2]._r = {sA, DelimEq, sB}

-----------------------------------------------------------------------------
(* Concentration dimensions                                                *)

\* The powers of moles and length the statement gives for the classes it
\* names.
ZeroConcClasses ==
    {"stoichiometric_solid", "stoichiometric_liquid", "metal", "lattice_solid",
     "liquid_vapor", "redlich_kwong"}

NamedConcClasses ==
    ZeroConcClasses \cup {"phase", "ideal_gas", "ideal_interface", "edge"}

ConcTable(ph) ==
    IF ph.kind \in ZeroConcClasses THEN <<0, 0>>
    ELSE IF ph.kind = "ideal_interface" THEN <<1, -2>>
    ELSE IF ph.kind = "edge" THEN <<1, -1>>
    ELSE <<1, 0 - ph._dim>>

\* The written elementary reaction A => B, reactant A resolved to phase ph.
WrittenOver(ph) ==
    /\ status = "written"
    /\ Len(_reactions) = 1
    /\ PhaseOf(sA) > 0
    /\ _phases[PhaseOf(sA)] = ph

\* C17: conc_dim of a registered phase is (1, -dim) for the base class and
\* the ideal gas ((1, -3) for dim 3), (0, 0) for stoichiometric solid and
\* liquid, metal, lattice_solid, liquid_vapor and redlich_kwong, (1, -2) for
\* ideal_interface and (1, -1) for edge; and the dimensions a written
\* elementary reaction A => B accumulates are those of the phase of A, less
\* one mole and plus three lengths for the rate of progress.
C17_ConcDim ==
    \A i \in 1..Len(_phases) :
        _phases[i].kind \in NamedConcClasses =>
            /\ conc_dim(_phases[i]) = ConcTable(_phases[i])
            /\ _phases[i].kind = "ideal_gas" => conc_dim(_phases[i]) = <<1, -3>>
            /\ WrittenOver(_phases[i]) =>
                 /\ _reactions[1].mdim = ConcTable(_phases[i])[1] - 1
                 /\ _reactions[1].ldim = ConcTable(_phases[i])[2] + 3

\* Written over a base-class phase of dimension 2, beside a lattice_solid.
C17_Witness ==
    /\ \E i \in 1..Len(_phases) :
          /\ _phases[i].kind = "phase"
          /\ _phases[i]._dim = 2
          /\ WrittenOver(_phases[i])
          /\ _reactions[1].mdim = 0
          /\ _reactions[1].ldim = 1
    /\ \E i \in 1..Len(_phases) : _phases[i].kind = "lattice_solid"

\* Written over a metal: no concentration dimensions at all.
ZeroConcReached ==
    \E i \in 1..Len(_phases) :
        /\ _phases[i].kind = "metal"
        /\ WrittenOver(_phases[i])
        /\ _reactions[1].mdim = -1
        /\ _reactions[1].ldim = 3

-----------------------------------------------------------------------------
(* Third bodies                                                            *)

\* The map of the side s without the keys M and m.
SideWithoutM(s) ==
    [t \in DOMAIN SideSums(s) \ {<<"M">>, <<"m">>} |-> SideSums(s)[t]]

\* The two sides of the equation of a registered reaction.
SideOf(rx, k) == StrSplit(rx._e, FindDelim(rx._e))[k]

\* The sum of f over the set S.
RECURSIVE SumOver(_, _)
SumOver(f, S) ==
    IF S = {} THEN 0
    ELSE The({ f[x] + SumOver(f, S \ {x}) : x \in {CHOOSE y \in S : TRUE} })

\* What the reactants other than M and m add to the power k of the
\* dimensions: their coefficient times the power of their phase.
PowerOfSide(rx, k) ==
    SumOver([t \in DOMAIN SideWithoutM(SideOf(rx, 1)) |->
                SideWithoutM(SideOf(rx, 1))[t] * conc_dim(_phases[PhaseOf(t)])[k]],
            DOMAIN SideWithoutM(SideOf(rx, 1)))

\* C18: a registered three-body reaction has the maps of its two sides
\* without the tokens M and m, and with every other token; the written
\* record carries those maps; the dimensions of the written reaction are
\* the sums over the remaining reactants (less one mole and plus three
\* lengths for the rate of progress, plus one mole and less three lengths
\* for the third body); and write() fails on a species no phase declares
\* only when one of the remaining reactants is such a species.
C18_ThirdBodyRemoved ==
    /\ \A i \in 1..Len(_reactions) :
          /\ _reactions[i]._r = SideWithoutM(SideOf(_reactions[i], 1))
          /\ _reactions[i]._p = SideWithoutM(SideOf(_reactions[i], 2))
          /\ status = "written" =>
               /\ doc[i].reactants = SideWithoutM(SideOf(_reactions[i], 1))
               /\ doc[i].products = SideWithoutM(SideOf(_reactions[i], 2))
               /\ _reactions[i].mdim = PowerOfSide(_reactions[i], 1) - 1 + 1
               /\ _reactions[i].ldim = PowerOfSide(_reactions[i], 2) + 3 - 3
    /\ (status = "write_aborted" /\ exc = CTIError("species not found")) =>
          \E i \in 1..Len(_reactions) :
              \E t \in DOMAIN SideWithoutM(SideOf(_reactions[i], 1)) : PhaseOf(t) = 0

\* Written over a gas that declares M and m as species of its own: the
\* reactions A + M <=> B + M and A + Mg + M <=> B, with A alone and with A
\* and Mg as reactants.
C18_Witness ==
    /\ status = "written"
    /\ Len(_reactions) = 2
    /\ PhaseOf(tM) = 1
    /\ PhaseOf(tLowM) = 1
    /\ Words(_reactions[1]._e) = <<sA, tPlus, tM, DelimArrowBoth, sB, tPlus, tM>>
    /\ doc[1].reactants = (sA :> 1)
    /\ doc[1].products = (sB :> 1)
    /\ _reactions[1].mdim = 1
    /\ _reactions[1].ldim = -3
    /\ DOMAIN doc[2].reactants = {sA, sMg}
    /\ _reactions[2].mdim = 2

-----------------------------------------------------------------------------
(* The governing phase                                                     *)

\* The phases the reactants of rx resolve to.
ReactantPhases(rx) == {PhaseOf(s) : s \in DOMAIN rx._r} \ {0}

\* C19: the phase a built reaction hands to its rate expressions is, among
\* the phases holding one of its reactants, one of the smallest dimension,
\* whatever the order in which the reactants were visited.
C19_GoverningPhase ==
    status = "written" =>
        \A i \in 1..Len(_reactions) :
            /\ _reactions[i]._rxnphase \in ReactantPhases(_reactions[i])
            /\ \A j \in ReactantPhases(_reactions[i]) :
                   _phases[_reactions[i]._rxnphase]._dim <= _phases[j]._dim

-----------------------------------------------------------------------------
(* Falloff reactions                                                       *)

\* The base-corrected power k of the dimensions of the built reaction rx:
\* the orders of its reactants times the powers of their phases, less one
\* mole (k = 1) and plus three lengths (k = 2) for the rate of progress.
BasePower(rx, k) ==
    SumOver([s \in DOMAIN rx._r |->
                rx._rxnorder[s] * conc_dim(_phases[PhaseOf(s)])[k]],
            DOMAIN rx._r)
        + (IF k = 1 THEN -1 ELSE 3)

\* The unit factor of the defaults now in force for the base-corrected
\* dimensions of rx after n shifts by (+1, -3).
ShiftedFactor(rx, n) ==
    unit_factor(_ulen, _umol, _utime, BasePower(rx, 1) + n, BasePower(rx, 2) - 3 * n)

\* The written record i is that of a falloff reaction with its two
\* coefficients, the unnamed high-pressure one first and 'k0' second, both
\* bare pre-exponentials.
FalloffWritten(i) ==
    /\ _reactions[i]._type = "falloff"
    /\ Len(doc[i].rateCoeff) = 2
    /\ doc[i].rateCoeff[1].name = ""
    /\ doc[i].rateCoeff[2].name = "k0"
    /\ BareScaled(doc[i].rateCoeff[1])
    /\ BareScaled(doc[i].rateCoeff[2])

\* C20: in the written record of a falloff reaction the high-pressure
\* coefficient, emitted first and unnamed, is scaled with the base-corrected
\* dimensions as they are, and the low-pressure coefficient, emitted second
\* as 'k0', with those dimensions shifted once by (+1, -3).
C20_FalloffShifts ==
    status = "written" =>
        \A i \in 1..Len(_reactions) :
            _reactions[i]._type = "falloff" =>
                /\ FalloffWritten(i)
                /\ doc[i].rateCoeff[1].A.val = _reactions[i]._kf[1].A.val
                /\ doc[i].rateCoeff[2].A.val = _reactions[i]._kf[2].A.val
                /\ doc[i].rateCoeff[1].A.factor = ShiftedFactor(_reactions[i], 0)
                /\ doc[i].rateCoeff[2].A.factor = ShiftedFactor(_reactions[i], 1)

\* As stated: one shift for the high-pressure coefficient and two for the
\* low-pressure one.
C20_AsStated ==
    status = "written" =>
        \A i \in 1..Len(_reactions) :
            _reactions[i]._type = "falloff" =>
                /\ FalloffWritten(i)
                /\ doc[i].rateCoeff[1].A.factor = ShiftedFactor(_reactions[i], 1)
                /\ doc[i].rateCoeff[2].A.factor = ShiftedFactor(_reactions[i], 2)

\* A falloff reaction written under centimetres and moles, where the
\* factors of zero, one and two shifts all differ.
C20_Witness ==
    /\ status = "written"
    /\ _ulen = "cm"
    /\ _umol = "mol"
    /\ \E i \in 1..Len(_reactions) :
          /\ FalloffWritten(i)
          /\ doc[i].rateCoeff[1].A.factor = ShiftedFactor(_reactions[i], 0)
          /\ doc[i].rateCoeff[2].A.factor = ShiftedFactor(_reactions[i], 1)
          /\ ShiftedFactor(_reactions[i], 0) # ShiftedFactor(_reactions[i], 1)
          /\ ShiftedFactor(_reactions[i], 1) # ShiftedFactor(_reactions[i], 2)

-----------------------------------------------------------------------------
(* Three-body reactions: dimensions                                        *)

\* The written record i is that of a three-body reaction with its one
\* coefficient, a bare pre-exponential.
ThreeBodyWritten(i) ==
    /\ _reactions[i]._type = "threeBody"
    /\ Len(doc[i].rateCoeff) = 1
    /\ BareScaled(doc[i].rateCoeff[1])

\* C21: a written three-body reaction has one rate coefficient; mdim and
\* ldim are the order-weighted sums of the molar and of the length powers
\* of its reactants (the base correction and the third-body shift cancel),
\* and the bare pre-exponential is scaled with the unit factor of the
\* base-corrected dimensions shifted once by (+1, -3).
C21_ThreeBodyDims ==
    status = "written" =>
        \A i \in 1..Len(_reactions) :
            _reactions[i]._type = "threeBody" =>
                /\ ThreeBodyWritten(i)
                /\ _reactions[i].mdim = BasePower(_reactions[i], 1) + 1
                /\ _reactions[i].ldim = BasePower(_reactions[i], 2) - 3
                /\ _reactions[i].mdim = PowerOfSide(_reactions[i], 1)
                /\ _reactions[i].ldim = PowerOfSide(_reactions[i], 2)
                /\ doc[i].rateCoeff[1].A.factor = ShiftedFactor(_reactions[i], 1)

\* 2 A + M => B written under centimetres and moles: mdim 2, ldim -6, and
\* a factor that differs from the one of the unshifted dimensions.
C21_Witness ==
    /\ status = "written"
    /\ _ulen = "cm"
    /\ _umol = "mol"
    /\ \E i \in 1..Len(_reactions) :
          /\ ThreeBodyWritten(i)
          /\ _reactions[i]._r = (sA :> 2)
          /\ _reactions[i].mdim = 2
          /\ _reactions[i].ldim = -6
          /\ doc[i].rateCoeff[1].A.factor = ShiftedFactor(_reactions[i], 1)
          /\ ShiftedFactor(_reactions[i], 1) # ShiftedFactor(_reactions[i], 0)

-----------------------------------------------------------------------------
(* Reaction orders and the base correction                                 *)

\* The order of reactant s of rx: the entry of the order argument when it
\* has one for s, the coefficient of s on the reactant side otherwise.
OrderOf(rx, s) ==
    IF s \in DOMAIN getPairs(PairList(rx._order))
    THEN getPairs(PairList(rx._order))[s]
    ELSE SideSums(SideOf(rx, 1))[s]

\* The sum over the distinct reactants of rx of their order times power k
\* of the phase they resolve to.
OrderedPower(rx, k) ==
    SumOver([s \in DOMAIN SideSums(SideOf(rx, 1)) |->
                OrderOf(rx, s) * conc_dim(_phases[PhaseOf(s)])[k]],
            DOMAIN SideSums(SideOf(rx, 1)))

\* The lengths the base correction adds for a reaction of type t.
BaseLength(t) == IF t = "surface" THEN 2 ELSE IF t = "edge" THEN 1 ELSE 3

\* C22: a written reaction without third body has mdim and ldim equal to
\* the sums, over its distinct reactants, of the order (the override when
\* one was declared, the coefficient otherwise) times the molar and the
\* length power of the reactant's phase, less one mole and plus 2 lengths
\* for a surface reaction, 1 for an edge reaction and 3 for any other.
C22_OrderedDims ==
    status = "written" =>
        \A i \in 1..Len(_reactions) :
            _reactions[i]._type \in {"", "surface", "edge"} =>
                /\ _reactions[i].mdim = OrderedPower(_reactions[i], 1) - 1
                /\ _reactions[i].ldim =
                       OrderedPower(_reactions[i], 2) + BaseLength(_reactions[i]._type)

\* A surface reaction A + 2 B => C with order A:3, A on a surface and B in
\* a gas, was written: mdim 3 + 2 - 1, ldim -6 - 6 + 2.
C22_Witness ==
    /\ status = "written"
    /\ Len(_reactions) = 1
    /\ _reactions[1]._type = "surface"
    /\ _reactions[1]._order # <<>>
    /\ OrderOf(_reactions[1], sA) = 3
    /\ _phases[PhaseOf(sA)].kind = "ideal_interface"
    /\ _phases[PhaseOf(sB)].kind = "ideal_gas"
    /\ _reactions[1].mdim = 4
    /\ _reactions[1].ldim = -10

-----------------------------------------------------------------------------
(* Resolution of the reactants at emission                                 *)

NotFoundErr == CTIError("species not found")

\* The phases of the registry that declare species s, and the first of them
\* in declaration order.
Declaring(s) == {i \in 1..Len(_phases) : s \in _phases[i]._spmap}

FirstDeclaring(s) == CHOOSE i \in Declaring(s) : \A j \in Declaring(s) : i <= j

\* The sum over the reactants of rx of their coefficient times power k of
\* the first phase that declares them.
FirstPhasePower(rx, k) ==
    SumOver([s \in DOMAIN rx._r |->
                rx._r[s] * conc_dim(_phases[FirstDeclaring(s)])[k]],
            DOMAIN rx._r)

\* C23: write() resolves each reactant against the phase registry as it
\* stands at write(), phases declared after the reaction included: a
\* written elementary reaction has the dimensions of the first phase, in
\* declaration order, that declares each reactant; the first reaction
\* built fails with "species not found" when one of its reactants is
\* declared by no phase, and write() fails so only when some reactant is.
C23_ResolvedAtEmission ==
    /\ status = "written" =>
          \A i \in 1..Len(_reactions) :
              /\ \A s \in DOMAIN _reactions[i]._r : Declaring(s) # {}
              /\ _reactions[i]._type = "" =>
                    /\ _reactions[i].mdim = FirstPhasePower(_reactions[i], 1) - 1
                    /\ _reactions[i].ldim = FirstPhasePower(_reactions[i], 2) + 3
    /\ (status = "write_aborted" /\ exc = NotFoundErr) =>
          \E i \in 1..Len(_reactions) :
              \E s \in DOMAIN _reactions[i]._r : Declaring(s) = {}
    /\ (/\ Finished
        /\ Len(_reactions) > 0
        /\ \A i \in 1..Len(_phases) : PhaseBuildExc(_phases[i]) = NoExc
        /\ \E s \in DOMAIN _reactions[1]._r : Declaring(s) = {}) =>
          (status = "write_aborted" /\ exc = NotFoundErr)

\* A + B => C, declared before any phase, was written: A is declared by a
\* surface and then by a gas, and the reaction has the dimensions of the
\* surface for A.
C23_Witness ==
    /\ status = "written"
    /\ Len(_reactions) = 1
    /\ Len(_phases) = 2
    /\ _phases[1].kind = "ideal_interface"
    /\ _phases[2].kind = "ideal_gas"
    /\ Declaring(sA) = {1, 2}
    /\ Declaring(sB) = {2}
    /\ _reactions[1].mdim = 1
    /\ _reactions[1].ldim = -2

\* Written without a phase for B: the run stopped on the missing species.
NotFoundReached ==
    /\ status = "write_aborted"
    /\ exc = NotFoundErr
    /\ Len(_phases) > 0
    /\ Declaring(sB) = {}

-----------------------------------------------------------------------------
(* Pre-exponentials per site                                               *)

\* The phases of smallest dimension among those the reactants of rx
\* resolve to.
LowestPhases(rx) ==
    {i \in ReactantPhases(rx) :
        \A j \in ReactantPhases(rx) : _phases[i]._dim <= _phases[j]._dim}

\* Reaction 1 carries one rate expression given per site, all its
\* reactants resolve, and one phase alone has the smallest dimension.
PerSiteBuilt ==
    /\ Finished
    /\ Len(_reactions) = 1
    /\ Len(_reactions[1]._kf) = 1
    /\ _reactions[1]._kf[1].A.form = "pair"
    /\ _reactions[1]._kf[1].A.unit = SitePerUnit
    /\ AllResolved(_reactions[1])
    /\ Cardinality(LowestPhases(_reactions[1])) = 1

\* The one phase of smallest dimension of reaction 1.
Governing == CHOOSE i \in LowestPhases(_reactions[1]) : TRUE

\* C24: a pre-exponential (value, '/site') is emitted as the value divided
\* by the site density of the governing phase when that phase is a surface
\* with a nonzero site density; otherwise write() is fatal and no document
\* is left.
C24_PerSite ==
    PerSiteBuilt =>
        IF _phases[Governing].kind = "ideal_interface" /\ _phases[Governing]._sitedens # 0
        THEN /\ status = "written"
             /\ doc[1].rateCoeff[1].A =
                    [form |-> "persite", val |-> _reactions[1]._kf[1].A.val,
                     sitedens |-> _phases[Governing]._sitedens]
        ELSE /\ status = "write_aborted"
             /\ doc = <<>>

\* The same for the reactions whose reactants all resolve to one phase.
PerSiteOnePhase ==
    (PerSiteBuilt /\ Cardinality(ReactantPhases(_reactions[1])) = 1) =>
        IF _phases[Governing].kind = "ideal_interface" /\ _phases[Governing]._sitedens # 0
        THEN /\ status = "written"
             /\ doc[1].rateCoeff[1].A =
                    [form |-> "persite", val |-> _reactions[1]._kf[1].A.val,
                     sitedens |-> _phases[Governing]._sitedens]
        ELSE /\ status = "write_aborted"
             /\ doc = <<>>

\* A per-site pre-exponential was emitted over a surface of site density 2.
PerSiteReached ==
    /\ PerSiteBuilt
    /\ status = "written"
    /\ doc[1].rateCoeff[1].A = [form |-> "persite", val |-> 5, sitedens |-> 2]

-----------------------------------------------------------------------------
(* The forms of the pre-exponential                                        *)

\* The unit factor of the built reaction rx under the defaults in force.
FactorOf(rx) == unit_factor(_ulen, _umol, _utime, rx.mdim, rx.ldim)

\* The A child a literal pair (value, unit) is emitted as.
LiteralOf(k) == [form |-> "literal", val |-> k.A.val, unit |-> k.A.unit]

\* The A child of a bare number scaled by the factor f.
ScaledOf(k, f) == [form |-> "scaled", val |-> k.A.val, factor |-> f]

\* C25: in a written elementary reaction a bare-number pre-exponential is
\* emitted multiplied by the reaction's unit factor, or by 1.0 when the
\* rate is a sticking coefficient; a pair (value, unit) with a unit other
\* than '/site' is emitted with the value and the unit as given, whatever
\* the unit defaults and the dimensions are.
C25_PreExponentialForms ==
    status = "written" =>
        \A i \in 1..Len(_reactions) :
            _reactions[i]._type = "" =>
                \A j \in 1..Len(_reactions[i]._kf) :
                    /\ (/\ _reactions[i]._kf[j].A.form = "num"
                        /\ _reactions[i]._kf[j].type # "stick") =>
                          doc[i].rateCoeff[j].A =
                              ScaledOf(_reactions[i]._kf[j], FactorOf(_reactions[i]))
                    /\ (/\ _reactions[i]._kf[j].A.form = "num"
                        /\ _reactions[i]._kf[j].type = "stick") =>
                          doc[i].rateCoeff[j].A = ScaledOf(_reactions[i]._kf[j], UnitOne)
                    /\ (/\ _reactions[i]._kf[j].A.form = "pair"
                        /\ _reactions[i]._kf[j].A.unit # SitePerUnit) =>
                          doc[i].rateCoeff[j].A = LiteralOf(_reactions[i]._kf[j])

\* As stated: every bare number is multiplied by the reaction's unit factor.
C25_AsStated ==
    status = "written" =>
        \A i \in 1..Len(_reactions) :
            _reactions[i]._type = "" =>
                \A j \in 1..Len(_reactions[i]._kf) :
                    /\ _reactions[i]._kf[j].A.form = "num" =>
                          doc[i].rateCoeff[j].A =
                              ScaledOf(_reactions[i]._kf[j], FactorOf(_reactions[i]))
                    /\ (/\ _reactions[i]._kf[j].A.form = "pair"
                        /\ _reactions[i]._kf[j].A.unit # SitePerUnit) =>
                          doc[i].rateCoeff[j].A = LiteralOf(_reactions[i]._kf[j])

\* 2 A => B with a sticking coefficient written under centimetres and
\* moles: the factor is 1.0 although the unit factor of the reaction is not.
C25_Witness ==
    /\ status = "written"
    /\ _ulen = "cm"
    /\ _umol = "mol"
    /\ Len(_reactions) = 1
    /\ _reactions[1]._kf[1].type = "stick"
    /\ doc[1].rateCoeff[1].A = ScaledOf(_reactions[1]._kf[1], UnitOne)
    /\ FactorOf(_reactions[1]) # UnitOne

\* A bare number and a literal pair written under centimetres and moles.
BareNumberReached ==
    /\ status = "written"
    /\ _ulen = "cm"
    /\ Len(_reactions) = 1
    /\ _reactions[1]._kf[1] = RateNum
    /\ doc[1].rateCoeff[1].A = ScaledOf(RateNum, FactorOf(_reactions[1]))
    /\ FactorOf(_reactions[1]) # UnitOne

LiteralPairReached ==
    /\ status = "written"
    /\ _ulen = "cm"
    /\ Len(_reactions) = 1
    /\ doc[1].rateCoeff[1].A = LiteralOf(RatePair)

-----------------------------------------------------------------------------
(* The shift between rate expressions                                      *)

\* The number of (+1, -3) shifts that precede rate expression j of rx.
ShiftsBefore(rx, j) == IF rx._type = "falloff" THEN j - 1 ELSE 0

\* C26: the (+1, -3) shift that follows an emitted rate expression is
\* applied in falloff reactions only: the bare pre-exponentials of a written
\* plog reaction are all scaled with the same base-corrected dimensions and
\* carry their pressures, and those of a falloff reaction are scaled with
\* one more shift each.
C26_ShiftOnlyInFalloff ==
    status = "written" =>
        \A i \in 1..Len(_reactions) :
            /\ Len(doc[i].rateCoeff) = Len(_reactions[i]._kf)
            /\ _reactions[i]._type = "plog" =>
                   doc[i].pressures = _reactions[i].pressures
            /\ \A j \in 1..Len(doc[i].rateCoeff) :
                   /\ BareScaled(doc[i].rateCoeff[j])
                   /\ doc[i].rateCoeff[j].A.val = _reactions[i]._kf[j].A.val
                   /\ doc[i].rateCoeff[j].A.factor =
                          ShiftedFactor(_reactions[i], ShiftsBefore(_reactions[i], j))

\* As stated: every rate expression after the first is scaled with one more
\* shift than the one before it, whatever the type.
C26_AsStated ==
    status = "written" =>
        \A i \in 1..Len(_reactions) :
            \A j \in 1..Len(doc[i].rateCoeff) :
                doc[i].rateCoeff[j].A.factor = ShiftedFactor(_reactions[i], j - 1)

\* A plog reaction with three rate expressions written under centimetres
\* and moles: one factor for all three, which a shift would have changed.
C26_Witness ==
    /\ status = "written"
    /\ _ulen = "cm"
    /\ _umol = "mol"
    /\ Len(_reactions) = 1
    /\ _reactions[1]._type = "plog"
    /\ Len(doc[1].rateCoeff) = 3
    /\ \A j \in 1..3 : doc[1].rateCoeff[j].A.factor = ShiftedFactor(_reactions[1], 0)
    /\ ShiftedFactor(_reactions[1], 0) # ShiftedFactor(_reactions[1], 1)
    /\ ShiftedFactor(_reactions[1], 1) # ShiftedFactor(_reactions[1], 2)

\* A falloff reaction written under the same defaults, its second
\* coefficient shifted once.
FalloffShiftReached ==
    /\ status = "written"
    /\ _ulen = "cm"
    /\ _umol = "mol"
    /\ Len(_reactions) = 1
    /\ FalloffWritten(1)
    /\ doc[1].rateCoeff[2].A.factor = ShiftedFactor(_reactions[1], 1)
    /\ ShiftedFactor(_reactions[1], 0) # ShiftedFactor(_reactions[1], 1)

-----------------------------------------------------------------------------
(* The registries after a fatal declaration                                *)

Registries == <<_species, _speciesnames, _phases, _reactions>>

\* C27: a declaration that ends in a fatal error leaves the species list,
\* the species-name list, the phase list and the reaction list as they
\* were, and the species list and the species-name list always hold the
\* same names in the same order.
C27_FatalLeavesRegistries ==
    /\ [](/\ Len(_species) = Len(_speciesnames)
          /\ \A i \in 1..Len(_species) : _species[i]._name = _speciesnames[i])
    /\ [][(status = "declaring" /\ status' = "aborted") =>
              Registries' = Registries]_vars

\* A species entry refused as multiply defined that left its object in the
\* species list all the same.
SpeciesListAhead ==
    /\ status = "aborted"
    /\ exc = MultiplyErr
    /\ Len(_species) = Len(_speciesnames) + 1

-----------------------------------------------------------------------------
(* Distinct reaction ids                                                   *)

\* C28: the reaction ids of a written document are pairwise distinct.
C28_DistinctIds ==
    status = "written" =>
        \A i \in 1..Len(doc) : \A j \in (i + 1)..Len(doc) : doc[i].id # doc[j].id

\* A document written with two reactions under the explicit id 'rx'.
SameIdTwice ==
    /\ status = "written"
    /\ Len(doc) = 2
    /\ _reactions[1]._id = <<"r", "x">>
    /\ doc[1].id = doc[2].id

-----------------------------------------------------------------------------
(* Building a reaction twice                                               *)

\* The data of reaction object rx that its declaration set and the claim
\* names: the rate-expression list with its nesting, the gas reactants and
\* the phase counts.
DeclaredData(rx) == <<rx._kf, rx._kfwrapped, rx._igspecies, rx._dims>>

\* C29: write() leaves the declared data of every reaction as it was, and
\* a second write() ends as the first did, with the same records.
C29_BuildLeavesData ==
    [][entry'.op = "write" =>
          /\ \A i \in 1..Len(_reactions) :
                 DeclaredData(_reactions'[i]) = DeclaredData(_reactions[i])
          /\ status = "written" => (status' = "written_again" /\ doc' = doc)]_vars

\* The document was written once and the second write() died in
\* Arrhenius(A = kf[0], n = kf[1], E = kf[2]) on the list wrapped twice.
SecondBuildFails ==
    /\ status = "write_aborted"
    /\ exc = Exc("IndexError", "list index out of range")
    /\ Len(_reactions) = 1
    /\ _reactions[1]._kfwrapped = 2

\* A document of one falloff reaction written twice, the gas reactants
\* listed twice in the object after the second build.
SecondBuildAppends ==
    /\ status = "written_again"
    /\ Len(_reactions) = 1
    /\ _reactions[1]._type = "falloff"
    /\ Len(_reactions[1]._igspecies) = 2 * Cardinality(DOMAIN _reactions[1]._r)

-----------------------------------------------------------------------------
(* The phase counts of surface and edge reactions                          *)

\* C30: after write(), a surface reaction with a reactant in a 1-D phase
\* has ended the run, with the surface error when it is the first
\* reaction; an edge reaction with no reactant in a 0-D phase and at most
\* one 1-D phase among its reactants is written however many 2-D phases it
\* touches, and so is a reaction of any other type whatever phases it
\* touches; the two errors are raised for surface and edge reactions only,
\* the edge error never for the count of 2-D phases.
C30_PhaseCountChecks ==
    Finished =>
        /\ \A i \in 1..Len(_reactions) :
              /\ (/\ ReachesPhaseCheck(_reactions[i])
                  /\ _reactions[i]._type = "surface"
                  /\ TouchedPhases(_reactions[i], 1) # {}) =>
                     /\ status = "write_aborted"
                     /\ i = 1 => exc = SurfaceErr
              /\ (/\ ReachesPhaseCheck(_reactions[i])
                  /\ _reactions[i]._type = "edge"
                  /\ TouchedPhases(_reactions[i], 0) = {}
                  /\ Cardinality(TouchedPhases(_reactions[i], 1)) <= 1
                  /\ Len(_reactions) = 1) =>
                     status = "written"
              /\ (/\ ReachesPhaseCheck(_reactions[i])
                  /\ _reactions[i]._type \notin {"surface", "edge"}
                  /\ Len(_reactions) = 1) =>
                     status = "written"
        /\ exc = SurfaceErr =>
              \E i \in 1..Len(_reactions) : _reactions[i]._type = "surface"
        /\ exc = EdgeErr =>
              \E i \in 1..Len(_reactions) :
                  /\ _reactions[i]._type = "edge"
                  /\ \/ Cardinality(TouchedPhases(_reactions[i], 1)) > 1
                     \/ TouchedPhases(_reactions[i], 0) # {}

\* write() was ended by the surface error for a surface reaction with one
\* reactant in an edge phase and the other in its only surface phase.
C30_Witness ==
    /\ status = "write_aborted"
    /\ exc = SurfaceErr
    /\ Len(_reactions) = 1
    /\ _reactions[1]._type = "surface"
    /\ Cardinality(TouchedPhases(_reactions[1], 1)) = 1
    /\ Cardinality(TouchedPhases(_reactions[1], 2)) = 1

\* An edge reaction between two surface phases was written.
EdgeTwoSurfacesReached ==
    /\ status = "written"
    /\ Len(_reactions) = 1
    /\ _reactions[1]._type = "edge"
    /\ Cardinality(TouchedPhases(_reactions[1], 2)) = 2

\* A reaction of the base class between two edge phases was written.
PlainTwoEdgesReached ==
    /\ status = "written"
    /\ Len(_reactions) = 1
    /\ _reactions[1]._type = ""
    /\ Cardinality(TouchedPhases(_reactions[1], 1)) = 2

====
